---- MODULE Spec2Model ----
(***************************************************************************)
(* Model of the legacy JSAPI shim over an XAST tree (class JSAPI): the     *)
(* node constructor, the attribute accessors and editors, the selector     *)
(* engine, spliceContent, and parseSvg.                                    *)
(*                                                                         *)
(* Objects live in two arenas: `nodes` holds the JSAPI instances (a node   *)
(* is named by its position, its identity), `attrObjs` holds the plain     *)
(* objects used as `attrs` collections (a node refers to one by position,  *)
(* so that two nodes can share one collection as in `this.attrs =          *)
(* data.attrs`).                                                           *)
(*                                                                         *)
(* A string is a sequence of atoms.  An atom is either a single special    *)
(* character (":", ",", ...) or a word of name characters; the words form  *)
(* a uniquely decodable code, so two strings are equal iff their atom      *)
(* sequences are.                                                          *)
(***************************************************************************)
EXTENDS Integers, Sequences, FiniteSets, TLC

VARIABLES source, nodes, attrObjs, root, last, steps,
          conversionCache, requests, calls

vars == <<source, nodes, attrObjs, root, last, steps,
          conversionCache, requests, calls>>

\* The state of the JSAPI shim, and the state of the tool handlers: the
\* conversion cache (a Map, in insertion order), the handler invocations
\* and the log of the calls made to the outside (converter, translator,
\* adb, file system).
jsapiVars == <<source, nodes, attrObjs, root>>
toolVars == <<conversionCache, requests, calls>>

\* No tool handler has been invoked.
ToolsIdle ==
    /\ conversionCache = <<>>
    /\ requests = <<>>
    /\ calls = <<>>

\* ------------------------------------------------------------------ bounds
MaxNodes == 3       \* JSAPI instances alive in one behaviour
MaxSplices == 2     \* spliceContent calls in one behaviour of Spec
MaxItems == 2       \* size of a newItems argument (values and empty arrays)
MaxCount == 1       \* largest removal count passed to spliceContent
MaxChildren == 4    \* longest children sequence
MaxNameLen == 2     \* atoms of an attribute name
MaxAttrs == 1       \* entries of a source attributes mapping

\* ------------------------------------------------------------- JS values
NULL == 0           \* null / undefined where a Node is expected
EmptyStr == <<>>

\* Sequence helpers
RECURSIVE SeqSum(_)
SeqSum(s) == IF s = <<>> THEN 0 ELSE Head(s) + SeqSum(Tail(s))

Range(s) == {s[i] : i \in DOMAIN s}

SeqsUpTo(S, n) == UNION {[1..k -> S] : k \in 0..n}

Min(a, b) == IF a < b THEN a ELSE b
Max(a, b) == IF a > b THEN a ELSE b

\* ---------------------------------------------------------------- strings
\* Words of name characters ([a-zA-Z0-9_-]); no string can be spelled by
\* two different sequences of them.
Words == {"svg", "g", "path", "rect", "Path", "href", "fill", "xlink",
          "constructor", "xml", "a", "b", "c", "red", "Red", "rgb", "0",
          "url", "grad1", "id"}

\* Property names every plain object inherits from Object.prototype
\* (`this.attrs = {}` creates an ordinary object; `this.attrs[name]` reads
\* through the prototype chain).
ObjectPrototypeKeys == {<<"constructor">>}

\* String.prototype.split(':'): the pieces between the ':' atoms.
RECURSIVE Split(_, _)
Split(s, sep) ==
    IF \A i \in DOMAIN s : s[i] # sep
    THEN <<s>>
    ELSE LET k == CHOOSE i \in DOMAIN s :
                      s[i] = sep /\ \A j \in 1..(i - 1) : s[j] # sep
         IN <<SubSeq(s, 1, k - 1)>> \o Split(SubSeq(s, k + 1, Len(s)), sep)

\* ------------------------------------------------------- attribute model
\* A record stored in an attrs collection.
AttrRecord(name, value, local, prefix) ==
    [name |-> name, value |-> value, local |-> local, prefix |-> prefix]

\* obj[key] = val on a plain object (own property set or overwritten).
PutProp(obj, key, val) ==
    [k \in DOMAIN obj \cup {key} |-> IF k = key THEN val ELSE obj[k]]

\* delete obj[key]
DeleteProp(obj, key) == [k \in DOMAIN obj \ {key} |-> obj[k]]

\* obj[key]: an own property, else a property inherited from
\* Object.prototype (a function object: truthy, with no `value`), else
\* undefined.
GetProp(obj, key) ==
    IF key \in DOMAIN obj THEN [kind |-> "own", rec |-> obj[key]]
    ELSE IF key \in ObjectPrototypeKeys
         THEN [kind |-> "inherited",
               rec |-> AttrRecord(EmptyStr, EmptyStr, EmptyStr, EmptyStr)]
         ELSE [kind |-> "undefined",
               rec |-> AttrRecord(EmptyStr, EmptyStr, EmptyStr, EmptyStr)]

\* An _addAttrInternal without the branch on parts.length: local is always
\* the first part.
_addAttrInternalNoBranch(obj, name, value) ==
    LET parts == Split(name, ":")
        prefix == IF Len(parts) > 1 THEN parts[1] ELSE EmptyStr
        local == parts[1]
    IN PutProp(obj, name, AttrRecord(name, value, local, prefix))

\* JSAPI._addAttrInternal, on the attrs object.
_addAttrInternal(obj, name, value) ==
    LET parts == Split(name, ":")
        prefix == IF Len(parts) > 1 THEN parts[1] ELSE EmptyStr
        local == IF Len(parts) > 1 THEN parts[2] ELSE parts[1]
    IN PutProp(obj, name, AttrRecord(name, value, local, prefix))

\* The constructor's loop over Object.entries(data.attributes).
RECURSIVE AddAllAttrs(_, _, _)
AddAllAttrs(obj, attributes, keys) ==
    IF keys = {} THEN obj
    ELSE LET k == CHOOSE x \in keys : TRUE
         IN AddAllAttrs(_addAttrInternal(obj, k, attributes[k]),
                        attributes, keys \ {k})

\* JSAPI.hasAttr(name, value); `value` is [given, v], given = FALSE for an
\* omitted (undefined) argument.
hasAttr(obj, name, value) ==
    LET a == GetProp(obj, name)
    IN IF a.kind = "undefined" THEN FALSE
       ELSE IF value.given
            THEN a.kind = "own" /\ a.rec.value = value.v
            ELSE TRUE

\* JSAPI.attr(name)
attr(obj, name) == GetProp(obj, name)

\* An addAttr that keeps a record already stored under the name.
addAttrIfAbsent(objs, ns, this, attrObj) ==
    [objs EXCEPT ![ns[this].attrs] =
        IF attrObj.name \in DOMAIN @ THEN @
        ELSE PutProp(@, attrObj.name, attrObj)]

\* JSAPI.addAttr(attrObj), on the arena of attrs collections.
addAttr(objs, ns, this, attrObj) ==
    [objs EXCEPT ![ns[this].attrs] = PutProp(@, attrObj.name, attrObj)]

\* JSAPI.removeAttr(name)
removeAttr(objs, ns, this, name) ==
    [objs EXCEPT ![ns[this].attrs] = DeleteProp(@, name)]

\* ------------------------------------------------------------ constructor
\* A source description (XAST node) is a record [has, type, name,
\* attributes, attrs, children]; `has` is the set of fields that are
\* present, the other fields of an absent name are ignored.  `attributes`
\* is a flat mapping name -> value, `attrs` the position in attrObjs of
\* an already prepared collection.
Data(has, type, name, attributes, attrsRef, children) ==
    [has |-> has, type |-> type, name |-> name, attributes |-> attributes,
     attrs |-> attrsRef, children |-> children]

NoAttributes == [k \in {} |-> EmptyStr]

\* new JSAPI(data, parentNode) in the arenas h = [nodes, attrObjs]; the new
\* instance is Len(h.nodes) + 1.  The children are constructed (each with
\* `this` as parent) before `this.children` is assigned.
RECURSIVE JSAPI(_, _, _)
RECURSIVE MapChildren(_, _, _)
JSAPI(data, parentNode, h) ==
    LET this == Len(h.nodes) + 1
        fresh == Len(h.attrObjs) + 1
        useAttributes == "attributes" \in data.has
        useAttrs == ~useAttributes /\ "attrs" \in data.has
        objs == Append(h.attrObjs,
                       IF useAttributes
                       THEN AddAllAttrs(NoAttributes, data.attributes,
                                        DOMAIN data.attributes)
                       ELSE NoAttributes)
        node == [parentNode |-> parentNode,
                 type |-> IF "type" \in data.has /\ data.type # ""
                          THEN data.type ELSE "element",
                 name |-> IF "name" \in data.has THEN data.name
                          ELSE EmptyStr,
                 children |-> <<>>,
                 attrs |-> IF useAttrs THEN data.attrs ELSE fresh]
        h1 == [nodes |-> Append(h.nodes, node), attrObjs |-> objs]
        r == IF "children" \in data.has
             THEN MapChildren(data.children, this, h1)
             ELSE [h |-> h1, ids |-> <<>>]
    IN [nodes |-> [r.h.nodes EXCEPT ![this].children = r.ids],
        attrObjs |-> r.h.attrObjs]

\* A children map that constructs each child without a parent.
RECURSIVE MapChildrenNoParent(_, _, _)
MapChildrenNoParent(cs, this, h) ==
    IF cs = <<>> THEN [h |-> h, ids |-> <<>>]
    ELSE LET id == Len(h.nodes) + 1
             rest == MapChildrenNoParent(Tail(cs), this,
                                         JSAPI(Head(cs), NULL, h))
         IN [h |-> rest.h, ids |-> <<id>> \o rest.ids]

\* data.children.map(c => new JSAPI(c, this))
MapChildren(cs, this, h) ==
    IF cs = <<>> THEN [h |-> h, ids |-> <<>>]
    ELSE LET id == Len(h.nodes) + 1
             rest == MapChildren(Tail(cs), this, JSAPI(Head(cs), this, h))
         IN [h |-> rest.h, ids |-> <<id>> \o rest.ids]

\* ---------------------------------------------------------- spliceContent
\* A splice that clamps start to the last position instead of the length.
ArraySpliceClampToLast(arr, start, deleteCount, items) ==
    LET len == Len(arr)
        actualStart == IF start < 0 THEN Max(len + start, 0)
                       ELSE Min(start, Max(len - 1, 0))
        actualDeleteCount == Min(Max(deleteCount, 0), len - actualStart)
    IN SubSeq(arr, 1, actualStart) \o items
       \o SubSeq(arr, actualStart + actualDeleteCount + 1, len)

\* Array.prototype.splice(start, deleteCount, ...items) on the sequence arr:
\* a negative start counts from the end, start and deleteCount are clamped
\* to the array.
ArraySplice(arr, start, deleteCount, items) ==
    LET len == Len(arr)
        actualStart == IF start < 0 THEN Max(len + start, 0)
                       ELSE Min(start, len)
        actualDeleteCount == Min(Max(deleteCount, 0), len - actualStart)
    IN SubSeq(arr, 1, actualStart) \o items
       \o SubSeq(arr, actualStart + actualDeleteCount + 1, len)

\* The newItems argument: [isArray, elems].  isArray = FALSE is a single
\* value (a Node or undefined) carried as the one entry of elems.  An entry
\* is [isArray, vals]: a Node or NULL (vals of length one), or a nested
\* array of such values.
Entry(isArray, vals) == [isArray |-> isArray, vals |-> vals]
NewItems(isArray, elems) == [isArray |-> isArray, elems |-> elems]

\* Array.prototype.flat(): one level of nesting is removed; undefined and
\* null entries stay.
RECURSIVE Flat(_)
Flat(items) ==
    IF items = <<>> THEN <<>> ELSE Head(items).vals \o Flat(Tail(items))

\* The parentNode assignments of the forEach over flatItems.
SetParents(ns, flatItems, this) ==
    [n \in DOMAIN ns |->
        IF n \in Range(flatItems) THEN [ns[n] EXCEPT !.parentNode = this]
        ELSE ns[n]]

\* The filter of line 149: i && (i instanceof JSAPI || Array.isArray(i) &&
\* i.length === 0 ? false : true), which keeps the non-empty arrays only.
KeptByFilter(e) == e.isArray /\ e.vals # <<>>

validItems(items) == SelectSeq(items, KeptByFilter)

\* A spliceContent that clears the parentNode of the children it removes.
spliceContentDetaching(ns, this, index, count, newItems) ==
    LET flatItems == Flat(newItems.elems)
        old == ns[this].children
        from == Min(Max(index, 0), Len(old))
        to == Min(from + Max(count, 0), Len(old))
        gone == {old[k] : k \in (from + 1)..to} \ Range(flatItems)
        ns1 == SetParents(ns, flatItems, this)
    IN [n \in DOMAIN ns |->
          IF n = this
          THEN [ns1[n] EXCEPT !.children =
                    ArraySplice(old, index, count, flatItems),
                              !.parentNode =
                    IF n \in gone THEN NULL ELSE ns1[n].parentNode]
          ELSE IF n \in gone THEN [ns1[n] EXCEPT !.parentNode = NULL]
          ELSE ns1[n]]

\* JSAPI.spliceContent(index, count, newItems) on the arena ns.  The code
\* computes validItems and does not use it: what is inserted is
\* items.flat().
spliceContent(ns, this, index, count, newItems) ==
    LET items == newItems.elems
        flatItems == Flat(items)
        ns1 == SetParents(ns, flatItems, this)
    IN [ns1 EXCEPT ![this].children =
            ArraySplice(ns[this].children, index, count, flatItems)]

\* ------------------------------------------------- tree mutation: Spec
El(name, children) ==
    Data({"type", "name", "attributes", "children"}, "element", name,
         NoAttributes, NULL, children)

Leaf(name) == Data({"type", "name", "attributes"}, "element", name,
                   NoAttributes, NULL, <<>>)

\* Source trees handed to the constructor.
SourceTrees ==
    { El(<<"svg">>, <<Leaf(<<"g">>)>>),
      El(<<"svg">>, <<Leaf(<<"g">>), Leaf(<<"path">>)>>),
      El(<<"svg">>, <<El(<<"g">>, <<Leaf(<<"path">>)>>)>>),
      Data({"type", "children"}, "root", EmptyStr, NoAttributes, NULL,
           <<El(<<"svg">>, <<Leaf(<<"path">>)>>)>>) }

\* Descriptions of nodes created later, to be inserted.
FreshData == { Leaf(<<"rect">>) }

EmptyArena == [nodes |-> <<>>, attrObjs |-> <<>>]

NoOp == [op |-> "none"]

Init ==
    /\ ToolsIdle
    /\ \E src \in SourceTrees :
        LET h == JSAPI(src, NULL, EmptyArena)
        IN /\ source = src
           /\ nodes = h.nodes
           /\ attrObjs = h.attrObjs
           /\ root = 1
           /\ last = NoOp
           /\ steps = 0

\* new JSAPI(data): a node with no parent, not yet in any children.
NewNode ==
    /\ Len(nodes) < MaxNodes
    /\ \E data \in FreshData :
         LET h == JSAPI(data, NULL, [nodes |-> nodes, attrObjs |-> attrObjs])
         IN /\ nodes' = h.nodes
            /\ attrObjs' = h.attrObjs
    /\ last' = [op |-> "new", this |-> Len(nodes) + 1]
    /\ UNCHANGED <<source, root, steps>>
    /\ UNCHANGED toolVars

\* The values an entry of newItems can be: the Nodes alive, and undefined.
Atoms == DOMAIN nodes \cup {NULL}

\* Entries of size k: a value or an empty array (size 1), or an array of k
\* values.
EntriesOfSize(k) ==
    (IF k = 1
     THEN {Entry(FALSE, <<v>>) : v \in Atoms} \cup {Entry(TRUE, <<>>)}
     ELSE {})
    \cup {Entry(TRUE, vs) : vs \in [1..k -> Atoms]}

\* Arrays of entries whose sizes add up to k.
RECURSIVE ArraysOfSize(_)
ArraysOfSize(k) ==
    IF k = 0 THEN {<<>>}
    ELSE UNION {{<<e>> \o rest : e \in EntriesOfSize(j),
                                 rest \in ArraysOfSize(k - j)} : j \in 1..k}

\* The newItems arguments: a single Node, undefined, or an array of size at
\* most MaxItems.
NewItemsArgs ==
    {NewItems(FALSE, <<Entry(FALSE, <<v>>)>>) : v \in Atoms}
    \cup {NewItems(TRUE, es) : es \in UNION {ArraysOfSize(k) : k \in 0..MaxItems}}

\* this.spliceContent(index, count, newItems), the call recorded in `last`.
Call(this, index, count, newItems) ==
    /\ nodes' = spliceContent(nodes, this, index, count, newItems)
    /\ Len(nodes'[this].children) <= MaxChildren
    /\ last' = [op |-> "spliceContent", this |-> this, index |-> index,
                count |-> count, newItems |-> newItems, pre |-> nodes]

\* A spliceContent call in a sequence of calls; only the receiver is
\* recorded.
SpliceContent ==
    /\ steps < MaxSplices
    /\ \E this \in DOMAIN nodes, count \in 0..MaxCount,
          newItems \in NewItemsArgs :
         \E index \in 0..(Len(nodes[this].children) + 1) :
           /\ nodes' = spliceContent(nodes, this, index, count, newItems)
           /\ Len(nodes'[this].children) <= MaxChildren
           /\ last' = [op |-> "splice", this |-> this]
    /\ steps' = steps + 1
    /\ UNCHANGED <<source, attrObjs, root>>
    /\ UNCHANGED toolVars

Next == NewNode \/ SpliceContent

\* Wrap a tree, create nodes, splice any number of times.
Spec == Init /\ [][Next]_vars

\* The first spliceContent call after wrapping, with its arguments and the
\* state before it recorded.
SpliceContentCall ==
    /\ steps = 0
    /\ \E this \in DOMAIN nodes, count \in 0..MaxCount,
          newItems \in NewItemsArgs :
         \E index \in 0..(Len(nodes[this].children) + 1) :
           Call(this, index, count, newItems)
    /\ steps' = steps + 1
    /\ UNCHANGED <<source, attrObjs, root>>
    /\ UNCHANGED toolVars

NextCall == NewNode \/ SpliceContentCall

\* Wrap a tree, create nodes, make one spliceContent call.
SpecCall == Init /\ [][NextCall]_vars

\* ------------------------------------------------ tree mutation: claims
IsNode(v) == v # NULL

LastSplice == last.op = "spliceContent"

\* The Nodes among the flattened entries of the last newItems, in order.
GivenNodes == SelectSeq(Flat(last.newItems.elems), IsNode)

\* The receiver's children before the last spliceContent.
OldChildren == last.pre[last.this].children

\* Occurrences of v in the sequence s.
Occurrences(s, v) == Cardinality({k \in DOMAIN s : s[k] = v})

\* Occurrences of node n in all children sequences.
RECURSIVE Held(_, _)
Held(n, k) ==
    IF k = 0 THEN 0
    ELSE Occurrences(nodes[k].children, n) + Held(n, k - 1)

\* Nodes reachable from the set S through children in at most k steps.
RECURSIVE Reach(_, _)
Reach(S, k) ==
    IF k = 0 THEN S
    ELSE Reach(S \cup UNION {Range(nodes[n].children) \ {NULL} : n \in S},
               k - 1)

Descendants(n) ==
    Reach(Range(nodes[n].children) \ {NULL}, Len(nodes))

\* C1: after spliceContent(i, r, items) every Node in items has the
\* receiver as parentNode, and the receiver's children are the pre-splice
\* children with the range [i, i+r) replaced by the flattened, non-empty
\* items in the order given.
C1_SpliceReplacesRange ==
    LastSplice =>
        LET old == OldChildren
            from == Min(last.index, Len(old))
            to == Min(last.index + last.count, Len(old))
        IN /\ \A n \in Range(GivenNodes) : nodes[n].parentNode = last.this
           /\ nodes[last.this].children =
                  SubSeq(old, 1, from) \o GivenNodes
                  \o SubSeq(old, to + 1, Len(old))

\* C2: every Node held in a children sequence has that holder as its
\* parentNode, and among the nodes of the tree under the root the root is
\* the only one with no parent.
C2_ParentOfEveryChildIsHolder ==
    /\ \A h \in DOMAIN nodes : \A c \in Range(nodes[h].children) \ {NULL} :
           nodes[c].parentNode = h
    /\ \A n \in {root} \cup Descendants(root) :
           (nodes[n].parentNode = NULL) <=> (n = root)

\* C3: no Node occurs more than once in all the children sequences
\* together, and the root occurs in none: a Node spliced into B is no
\* longer in A, and a Node inserted twice occurs once.
C3_HeldExactlyOnce ==
    \A n \in DOMAIN nodes :
        Held(n, Len(nodes)) <= (IF n = root THEN 0 ELSE 1)

\* C4: the tree is acyclic: no Node is reachable from itself through
\* children.
C4_Acyclic == \A n \in DOMAIN nodes : n \notin Descendants(n)

\* C5: no absent entry is ever inserted: every element of every children
\* sequence is a Node; a spliceContent with nonzero count and no Node in
\* newItems shortens children by exactly the removed range.
C5_AbsentEntriesDiscarded ==
    /\ \A h \in DOMAIN nodes : NULL \notin Range(nodes[h].children)
    /\ (LastSplice /\ last.count > 0 /\ GivenNodes = <<>>) =>
           LET old == OldChildren
               from == Min(last.index, Len(old))
               to == Min(last.index + last.count, Len(old))
           IN Len(nodes[last.this].children) = Len(old) - (to - from)

\* C6: spliceContent with index >= the number of children appends for any
\* count: the existing children stay where they are and the Nodes given
\* follow them in the order given.
C6_IndexBeyondLengthAppends ==
    (LastSplice /\ last.index >= Len(OldChildren)) =>
        LET new == nodes[last.this].children
        IN /\ Len(new) >= Len(OldChildren)
           /\ SubSeq(new, 1, Len(OldChildren)) = OldChildren
           /\ SelectSeq(SubSeq(new, Len(OldChildren) + 1, Len(new)), IsNode)
                  = GivenNodes

\* A call past the end of a non-empty children sequence, with a nonzero
\* count and two Nodes to insert.
C6_Witness ==
    /\ LastSplice
    /\ last.index > Len(OldChildren)
    /\ Len(OldChildren) >= 1
    /\ last.count >= 1
    /\ Len(GivenNodes) >= 2
    /\ GivenNodes[1] # GivenNodes[2]

\* --------------------------------------------------- attributes: SpecAttr
NameAtoms == {"a", ":"}

\* Attribute names: the strings of at most MaxNameLen atoms, and some
\* longer ones.
AttrNames ==
    (SeqsUpTo(NameAtoms, MaxNameLen) \ {EmptyStr})
    \cup { <<"xlink", ":", "href">>, <<"a", ":", "b", ":", "c">>,
           <<"constructor">> }

AttrValues == { <<"red">>, <<"Red">> }

\* The value argument of hasAttr: omitted, or a string.
Omitted == [given |-> FALSE, v |-> EmptyStr]
ValueArgs == {Omitted} \cup {[given |-> TRUE, v |-> v] : v \in AttrValues}

\* The flat attributes mappings of a source node.
AttributesMaps ==
    UNION {[keys -> AttrValues] :
               keys \in {K \in SUBSET AttrNames : Cardinality(K) <= MaxAttrs}}

\* new JSAPI({type: 'element', name: 'path', attributes})
InitAttr ==
    /\ ToolsIdle
    /\ \E attributes \in AttributesMaps :
        LET src == Data({"type", "name", "attributes"}, "element",
                        <<"path">>, attributes, NULL, <<>>)
            h == JSAPI(src, NULL, EmptyArena)
        IN /\ source = src
           /\ nodes = h.nodes
           /\ attrObjs = h.attrObjs
           /\ root = 1
           /\ last = NoOp
           /\ steps = 0

\* this.hasAttr(name, value)
HasAttr ==
    /\ \E this \in DOMAIN nodes, name \in AttrNames, value \in ValueArgs :
         last' = [op |-> "hasAttr", this |-> this, name |-> name,
                  value |-> value,
                  result |-> hasAttr(attrObjs[nodes[this].attrs], name, value),
                  preNodes |-> nodes, preAttrObjs |-> attrObjs]
    /\ UNCHANGED <<source, nodes, attrObjs, root, steps>>
    /\ UNCHANGED toolVars

\* this.attr(name)
Attr ==
    /\ \E this \in DOMAIN nodes, name \in AttrNames :
         last' = [op |-> "attr", this |-> this, name |-> name,
                  result |-> attr(attrObjs[nodes[this].attrs], name)]
    /\ UNCHANGED <<source, nodes, attrObjs, root, steps>>
    /\ UNCHANGED toolVars

NextAttr == HasAttr \/ Attr

\* Wrap one element with attributes, then read its attributes.
SpecAttr == InitAttr /\ [][NextAttr]_vars

\* ----------------------------------------------------- attributes: claims
\* Number of ':' in a name.
Colons(name) == Cardinality({i \in DOMAIN name : name[i] = ":"})

FirstColon(name) ==
    CHOOSE i \in DOMAIN name :
        name[i] = ":" /\ \A j \in 1..(i - 1) : name[j] # ":"

\* The text before and after the first ':' of a name that has one.
BeforeColon(name) == SubSeq(name, 1, FirstColon(name) - 1)
AfterColon(name) == SubSeq(name, FirstColon(name) + 1, Len(name))

\* The own records of all attrs collections.
StoredRecords ==
    UNION {{attrObjs[o][k] : k \in DOMAIN attrObjs[o]} : o \in DOMAIN attrObjs}

\* C7: for a name with at most one ':' given in the source attributes, the
\* record returned by attr(name) has the given value; prefix and local are
\* the text before and after the ':' when there is one, and '' and the
\* whole name when there is none.
C7_AttrRoundTrip ==
    (/\ last.op = "attr"
     /\ last.name \in DOMAIN source.attributes
     /\ Colons(last.name) <= 1) =>
        /\ last.result.kind = "own"
        /\ last.result.rec.name = last.name
        /\ last.result.rec.value = source.attributes[last.name]
        /\ Colons(last.name) = 1 =>
               /\ last.result.rec.prefix = BeforeColon(last.name)
               /\ last.result.rec.local = AfterColon(last.name)
        /\ Colons(last.name) = 0 =>
               /\ last.result.rec.prefix = EmptyStr
               /\ last.result.rec.local = last.name

\* attr('xlink:href') returned prefix 'xlink' and local 'href'.
C7_Witness ==
    /\ last.op = "attr"
    /\ last.name = <<"xlink", ":", "href">>
    /\ last.name \in DOMAIN source.attributes
    /\ last.result.rec.prefix = <<"xlink">>
    /\ last.result.rec.local = <<"href">>
    /\ last.result.rec.value = <<"Red">>

\* C8: every record built from a raw name satisfies
\* name = (prefix non-empty ? prefix + ':' + local : local), the name being
\* split at its first ':' only.
C8_QualifiedNameInvariant ==
    \A r \in StoredRecords :
        /\ r.name = IF r.prefix # EmptyStr
                    THEN r.prefix \o <<":">> \o r.local
                    ELSE r.local
        /\ Colons(r.name) >= 1 =>
               /\ r.prefix = BeforeColon(r.name)
               /\ r.local = AfterColon(r.name)

\* C9: hasAttr(name, value) is false when no attribute is stored under
\* name; when one is stored it is the equality of the stored and the given
\* value, or true when no value is given; it changes nothing.
C9_HasAttr ==
    last.op = "hasAttr" =>
        LET obj == attrObjs[nodes[last.this].attrs]
        IN /\ last.result =
                  IF last.name \notin DOMAIN obj THEN FALSE
                  ELSE IF last.value.given
                       THEN obj[last.name].value = last.value.v
                       ELSE TRUE
           /\ nodes = last.preNodes
           /\ attrObjs = last.preAttrObjs

\* ------------------------------------------------------- selector engine
\* Atoms matched by the class [a-zA-Z0-9\-_:].
IsNameChar(c) == c \in Words \cup {":", "-", "_"}

\* /^[a-zA-Z0-9\-_:]+$/.test(s)
IsTagToken(s) == s # EmptyStr /\ \A i \in DOMAIN s : IsNameChar(s[i])

\* String.prototype.includes
Includes(s, c) == \E i \in DOMAIN s : s[i] = c

\* String.prototype.trim
RECURSIVE Trim(_)
Trim(s) ==
    IF s = EmptyStr THEN s
    ELSE IF Head(s) = " " THEN Trim(Tail(s))
    ELSE IF s[Len(s)] = " " THEN Trim(SubSeq(s, 1, Len(s) - 1))
    ELSE s

\* Position of the first atom c of s.
IndexOf(s, c) ==
    CHOOSE i \in DOMAIN s : s[i] = c /\ \A j \in 1..(i - 1) : s[j] # c

\* selector.match(/^([a-zA-Z0-9\-_:]+)?\[([a-zA-Z0-9\-_:]+)="([^"]+)"\]$/):
\* [ok, tagName, attrName, attrVal]; tagName is EmptyStr when the optional
\* group did not take part.
NoMatch == [ok |-> FALSE, tagName |-> EmptyStr, attrName |-> EmptyStr,
            attrVal |-> EmptyStr]

AttrMatch(s) ==
    IF ~Includes(s, "[") THEN NoMatch
    ELSE LET lb == IndexOf(s, "[")
             tagName == SubSeq(s, 1, lb - 1)
             rest == SubSeq(s, lb + 1, Len(s))
         IN IF ~(tagName = EmptyStr \/ IsTagToken(tagName)) \/ ~Includes(rest, "=")
            THEN NoMatch
            ELSE LET eq == IndexOf(rest, "=")
                     attrName == SubSeq(rest, 1, eq - 1)
                     quoted == SubSeq(rest, eq + 1, Len(rest))
                 IN IF /\ IsTagToken(attrName)
                       /\ Len(quoted) >= 4
                       /\ quoted[1] = "\""
                       /\ quoted[Len(quoted) - 1] = "\""
                       /\ quoted[Len(quoted)] = "]"
                       /\ ~Includes(SubSeq(quoted, 2, Len(quoted) - 2), "\"")
                    THEN [ok |-> TRUE, tagName |-> tagName,
                          attrName |-> attrName,
                          attrVal |-> SubSeq(quoted, 2, Len(quoted) - 2)]
                    ELSE NoMatch

\* The part of JSAPI._matches below the comma split, for a selector
\* without ','.
MatchesSimple(node, selector) ==
    IF IsTagToken(selector) THEN node.name = selector
    ELSE LET m == AttrMatch(selector)
         IN IF m.ok
            THEN IF m.tagName # EmptyStr /\ node.name # m.tagName THEN FALSE
                 ELSE hasAttr(attrObjs[node.attrs], m.attrName,
                              [given |-> TRUE, v |-> m.attrVal])
            ELSE FALSE

\* A _matches that lets root nodes through the kind check.
_matchesRootToo(node, selector) ==
    IF node.type # "element" /\ node.type # "root" THEN FALSE
    ELSE IF Includes(selector, ",")
         THEN LET parts == Split(selector, ",")
              IN \E i \in DOMAIN parts : MatchesSimple(node, Trim(parts[i]))
         ELSE MatchesSimple(node, selector)

\* JSAPI._matches(node, selector)
_matches(node, selector) ==
    IF node.type # "element" THEN FALSE
    ELSE IF Includes(selector, ",")
         THEN LET parts == Split(selector, ",")
              IN \E i \in DOMAIN parts : MatchesSimple(node, Trim(parts[i]))
         ELSE MatchesSimple(node, selector)

\* A traversal that visits the children before the node.
RECURSIVE _traversePostOrder(_)
RECURSIVE TraverseAllPostOrder(_)
_traversePostOrder(this) ==
    TraverseAllPostOrder(nodes[this].children) \o <<this>>

TraverseAllPostOrder(cs) ==
    IF cs = <<>> THEN <<>>
    ELSE _traversePostOrder(Head(cs)) \o TraverseAllPostOrder(Tail(cs))

\* A traversal that walks the children from the last to the first.
RECURSIVE _traverseReversed(_)
RECURSIVE TraverseAllReversed(_)
_traverseReversed(this) ==
    <<this>> \o TraverseAllReversed(nodes[this].children)

TraverseAllReversed(cs) ==
    IF cs = <<>> THEN <<>>
    ELSE TraverseAllReversed(Tail(cs)) \o _traverseReversed(Head(cs))

\* JSAPI._traverse: the nodes in the order the callback is called on them.
RECURSIVE _traverse(_)
RECURSIVE TraverseAll(_)
_traverse(this) == <<this>> \o TraverseAll(nodes[this].children)

\* this.children.forEach(c => c._traverse(callback))
TraverseAll(cs) ==
    IF cs = <<>> THEN <<>>
    ELSE _traverse(Head(cs)) \o TraverseAll(Tail(cs))

\* The visited nodes that match, in the order visited.
RECURSIVE Collect(_, _)
Collect(visited, selector) ==
    IF visited = <<>> THEN <<>>
    ELSE (IF _matches(nodes[Head(visited)], selector)
          THEN <<Head(visited)>> ELSE <<>>)
         \o Collect(Tail(visited), selector)

\* A querySelectorAll that runs one traversal per alternative of a list and
\* concatenates the results.
RECURSIVE CollectGrouped(_, _)
CollectGrouped(visited, parts) ==
    IF parts = <<>> THEN <<>>
    ELSE Collect(visited, Trim(Head(parts)))
         \o CollectGrouped(visited, Tail(parts))

querySelectorAllGrouped(this, selector) ==
    CollectGrouped(_traverse(this), Split(selector, ","))

\* JSAPI.querySelectorAll(selector)
querySelectorAll(this, selector) == Collect(_traverse(this), selector)

\* A querySelector that returns the last match.
querySelectorLast(this, selector) ==
    LET results == querySelectorAll(this, selector)
    IN IF Len(results) > 0 THEN results[Len(results)] ELSE NULL

\* JSAPI.querySelector(selector)
querySelector(this, selector) ==
    LET results == querySelectorAll(this, selector)
    IN IF Len(results) > 0 THEN results[1] ELSE NULL

\* ------------------------------------------------------ queries: SpecQuery
ElA(name, attributes, children) ==
    Data({"type", "name", "attributes", "children"}, "element", name,
         attributes, NULL, children)

\* { type: 'text', value: ... }
TextData == Data({"type"}, "text", EmptyStr, NoAttributes, NULL, <<>>)

Fill(v) == [k \in {<<"fill">>} |-> v]

\* 'url(#grad1)' and 'rgb(0,0,0)'
UrlGrad1 == <<"url", "(", "#", "grad1", ")">>
Rgb000 == <<"rgb", "(", "0", ",", "0", ",", "0", ")">>

\* Source trees of elements and text, and one as the parser hands it over:
\* a root with an instruction, a doctype and the svg element.
QueryTrees ==
    { El(<<"svg">>,
         << ElA(<<"path">>, Fill(<<"red">>), <<>>),
            El(<<"g">>, << Leaf(<<"rect">>), TextData,
                           ElA(<<"path">>, Fill(<<"Red">>), <<>>) >>),
            ElA(<<"rect">>, Fill(<<"red">>), <<>>),
            Leaf(<<"path">>) >>),
      El(<<"path">>,
         << El(<<"Path">>, << Leaf(<<"path">>), TextData >>),
            Leaf(<<"xlink", ":", "href">>) >>),
      Data({"type", "children"}, "root", EmptyStr, NoAttributes, NULL,
           << Data({"type", "name"}, "instruction", <<"xml">>,
                   NoAttributes, NULL, <<>>),
              Data({"type", "name"}, "doctype", <<"svg">>,
                   NoAttributes, NULL, <<>>),
              El(<<"svg">>, << Leaf(<<"path">>), TextData >>) >>),
      El(<<"svg">>,
         << ElA(<<"path">>, Fill(UrlGrad1), <<>>),
            ElA(<<"rect">>, Fill(UrlGrad1), <<>>),
            ElA(<<"path">>, Fill(Rgb000), <<>>),
            ElA(<<"path">>, Fill(<<"red">>), <<>>) >>),
      Data({"type", "name", "attributes", "children"}, "root", <<"svg">>,
           Fill(<<"red">>), NULL,
           << El(<<"svg">>, << Leaf(<<"path">>) >>),
              Data({"type", "name"}, "comment", <<"path">>,
                   NoAttributes, NULL, <<>>),
              TextData >>),
      Data({"name", "children"}, "", <<"g">>, NoAttributes, NULL,
           << Data({}, "", EmptyStr, NoAttributes, NULL, <<>>),
              El(<<"g">>, << Leaf(<<"path">>), Leaf(<<"rect">>) >>) >>) }

\* The selector text T[A="V"]; T = EmptyStr for no tag.
AttrSelector(T, A, V) ==
    T \o <<"[">> \o A \o <<"=", "\"">> \o V \o <<"\"", "]">>

SelTags == {EmptyStr, <<"path">>, <<"rect">>}
SelAttrNames == {<<"fill">>, <<"xlink", ":", "href">>}
SelValues == {<<"red">>, <<"Red">>, UrlGrad1, Rgb000}

AttrSelectors ==
    {AttrSelector(T, A, V) : T \in SelTags, A \in SelAttrNames,
                             V \in SelValues}

\* Alternatives of a selector list: a tag token, the attribute form, or a
\* text of neither form.
TagAlt(T) == [kind |-> "tag", T |-> T, A |-> EmptyStr, V |-> EmptyStr]
AttrAlt(T, A, V) == [kind |-> "attr", T |-> T, A |-> A, V |-> V]
OtherAlt(text) == [kind |-> "other", T |-> text, A |-> EmptyStr, V |-> EmptyStr]

Alternatives ==
    { TagAlt(<<"path">>), TagAlt(<<"rect">>),
      AttrAlt(EmptyStr, <<"fill">>, <<"red">>),
      AttrAlt(<<"path">>, <<"fill">>, UrlGrad1),
      OtherAlt(<<"#", "a">>) }

\* The text of one alternative.
AltText(a) ==
    IF a.kind = "attr" THEN AttrSelector(a.T, a.A, a.V) ELSE a.T

\* 's1, s2, ...'
RECURSIVE ListText(_)
ListText(as) ==
    IF Len(as) = 1 THEN AltText(as[1])
    ELSE AltText(Head(as)) \o <<",", " ">> \o ListText(Tail(as))

AlternativeLists ==
    {<<a, b>> : a, b \in Alternatives}
    \cup {<<a, b, c>> : a, b, c \in Alternatives}

ListSelectors == {ListText(as) : as \in AlternativeLists}

\* Selector texts of none of the three supported forms: '#id', '#a',
\* 'path[fill]', 'g > path' and ''.
UnsupportedSelectors ==
    { <<"#", "id">>, <<"#", "a">>, <<"path", "[", "fill", "]">>,
      <<"g", " ", ">", " ", "path">>, EmptyStr }

Selectors ==
    { <<"path">>, <<"Path">>, <<"rect">>, <<"svg">>, <<"g">>, <<"xml">>,
      <<"xlink", ":", "href">>,
      <<"path", ",", " ", "rect">>,
      <<"path", "[", "fill", "=", "\"", "red", "\"", "]">>,
      <<"[", "fill", "=", "\"", "red", "\"", "]">> }
    \cup UnsupportedSelectors \cup AttrSelectors \cup ListSelectors

InitQuery ==
    /\ ToolsIdle
    /\ \E src \in QueryTrees :
        LET h == JSAPI(src, NULL, EmptyArena)
        IN /\ source = src
           /\ nodes = h.nodes
           /\ attrObjs = h.attrObjs
           /\ root = 1
           /\ last = NoOp
           /\ steps = 0

\* The first query after wrapping: this.querySelectorAll(selector)
QuerySelectorAll ==
    /\ steps = 0
    /\ \E this \in DOMAIN nodes, selector \in Selectors :
         last' = [op |-> "querySelectorAll", this |-> this,
                  selector |-> selector,
                  result |-> querySelectorAll(this, selector)]
    /\ steps' = steps + 1
    /\ UNCHANGED <<source, nodes, attrObjs, root>>
    /\ UNCHANGED toolVars

\* The first query after wrapping: this.querySelector(selector)
QuerySelector ==
    /\ steps = 0
    /\ \E this \in DOMAIN nodes, selector \in Selectors :
         last' = [op |-> "querySelector", this |-> this,
                  selector |-> selector,
                  result |-> querySelector(this, selector)]
    /\ steps' = steps + 1
    /\ UNCHANGED <<source, nodes, attrObjs, root>>
    /\ UNCHANGED toolVars

NextQuery == QuerySelectorAll \/ QuerySelector

\* Wrap a tree, then make one query.
SpecQuery == InitQuery /\ [][NextQuery]_vars

\* --------------------------------------------------------- queries: claims
\* The nodes of the subtree of n, n included.
Subtree(n) == {n} \cup Descendants(n)

\* The position of node n under the node top: the child indexes on the way
\* down from top, found by following parentNode upwards.
RECURSIVE PathFrom(_, _)
PathFrom(top, n) ==
    IF n = top THEN <<>>
    ELSE LET p == nodes[n].parentNode
         IN PathFrom(top, p)
            \o <<CHOOSE k \in DOMAIN nodes[p].children :
                     nodes[p].children[k] = n>>

\* Document order of two positions: an ancestor comes before its
\* descendants, and a subtree before the subtrees of later siblings.
RECURSIVE Before(_, _)
Before(p, q) ==
    IF p = <<>> THEN q # <<>>
    ELSE IF q = <<>> THEN FALSE
    ELSE IF Head(p) # Head(q) THEN Head(p) < Head(q)
    ELSE Before(Tail(p), Tail(q))

\* C10: for a tag token T, querySelectorAll(T) on a node returns exactly
\* the element nodes of its subtree (the node included) whose name is T,
\* each once, in pre-order document order; no text node is returned.
C10_TagQuery ==
    (last.op = "querySelectorAll" /\ IsTagToken(last.selector)) =>
        LET res == last.result
        IN /\ Range(res) = {n \in Subtree(last.this) :
                               /\ nodes[n].type = "element"
                               /\ nodes[n].name = last.selector}
           /\ \A i, j \in DOMAIN res :
                  i < j => Before(PathFrom(last.this, res[i]),
                                  PathFrom(last.this, res[j]))
           /\ \A i \in DOMAIN res : nodes[res[i]].type # "text"

\* querySelectorAll('path') on the svg of the first tree: the three path
\* elements at positions 2, 6, 8 of the arena, not the two rect elements.
C10_Witness ==
    /\ last.op = "querySelectorAll"
    /\ last.selector = <<"path">>
    /\ last.this = root
    /\ Cardinality({n \in DOMAIN nodes : nodes[n].name = <<"rect">>}) = 2
    /\ Cardinality({n \in DOMAIN nodes : nodes[n].type = "text"}) = 1
    /\ Len(last.result) = 3
    /\ nodes[last.result[2]].parentNode # root

\* The element nodes under `this` that store attribute A with value V and,
\* when T is given, are named T.
StoresExactly(this, T, A, V) ==
    {n \in Subtree(this) :
        /\ nodes[n].type = "element"
        /\ A \in DOMAIN attrObjs[nodes[n].attrs]
        /\ attrObjs[nodes[n].attrs][A].value = V
        /\ (T # EmptyStr => nodes[n].name = T)}

\* C11: for every optional tag T, attribute name A and value V (non-empty,
\* without a double quote, a value containing ',' included),
\* querySelectorAll('T[A="V"]') returns exactly the element nodes that
\* store A with value exactly V and, when T is given, are named T.
C11_AttrExactQuery ==
    last.op = "querySelectorAll" =>
        \A T \in SelTags, A \in SelAttrNames, V \in SelValues :
            last.selector = AttrSelector(T, A, V) =>
                Range(last.result) = StoresExactly(last.this, T, A, V)

\* Node n matches the alternative a.
MatchesAlternative(n, a) ==
    /\ nodes[n].type = "element"
    /\ CASE a.kind = "tag" -> nodes[n].name = a.T
          [] a.kind = "attr" ->
                 /\ a.A \in DOMAIN attrObjs[nodes[n].attrs]
                 /\ attrObjs[nodes[n].attrs][a.A].value = a.V
                 /\ (a.T # EmptyStr => nodes[n].name = a.T)
          [] OTHER -> FALSE

\* The sequence res lists nodes under top in document order, each once.
InDocumentOrder(top, res) ==
    \A i, j \in DOMAIN res :
        i < j => Before(PathFrom(top, res[i]), PathFrom(top, res[j]))

\* C12: for a comma-separated selector 's1, s2, ...', querySelectorAll
\* returns exactly the nodes that match at least one alternative, each node
\* once even when it matches several alternatives, in pre-order document
\* order and not grouped by alternative.
C12_SelectorList ==
    last.op = "querySelectorAll" =>
        \A as \in AlternativeLists :
            last.selector = ListText(as) =>
                /\ Range(last.result) =
                       {n \in Subtree(last.this) :
                           \E i \in DOMAIN as : MatchesAlternative(n, as[i])}
                /\ InDocumentOrder(last.this, last.result)

\* querySelectorAll('path, [fill="red"]') on the svg of the first tree: the
\* red path matches both alternatives and is listed once; the red rect
\* comes between two paths.
C12_Witness ==
    /\ last.op = "querySelectorAll"
    /\ last.selector = ListText(<<TagAlt(<<"path">>),
                                  AttrAlt(EmptyStr, <<"fill">>, <<"red">>)>>)
    /\ last.this = root
    /\ Len(last.result) = 4
    /\ MatchesAlternative(last.result[1], TagAlt(<<"path">>))
    /\ MatchesAlternative(last.result[1],
                          AttrAlt(EmptyStr, <<"fill">>, <<"red">>))
    /\ nodes[last.result[3]].name = <<"rect">>
    /\ nodes[last.result[4]].name = <<"path">>

RECURSIVE Wraps(_, _, _)
Wraps(data, n, parent) ==
    LET cs == IF "children" \in data.has THEN data.children ELSE <<>>
        ws == nodes[n].children
    IN /\ nodes[n].parentNode = parent
       /\ nodes[n].type = (IF "type" \in data.has THEN data.type
                                                  ELSE "element")
       /\ nodes[n].name = (IF "name" \in data.has THEN data.name
                                                  ELSE EmptyStr)
       /\ Len(ws) = Len(cs)
       /\ Cardinality(Range(ws)) = Len(ws)
       /\ \A i \in DOMAIN cs : Wraps(cs[i], ws[i], n)

\* The number of descriptions in a source tree.
RECURSIVE SizeOf(_)
SizeOfAll(cs) == SeqSum([i \in DOMAIN cs |-> SizeOf(cs[i])])
SizeOf(data) ==
    1 + (IF "children" \in data.has THEN SizeOfAll(data.children) ELSE 0)

\* C16: the wrapped tree has the shape of the source: one wrapped child per
\* source child in the same order, each child's parentNode the node built
\* around it, the root's parentNode null, and kind 'element', name '' and no
\* children where the source leaves the field out.
C16_WrapKeepsShape ==
    /\ Wraps(source, root, NULL)
    /\ Len(nodes) = SizeOf(source)

\* A source without a kind whose first child has no field at all: the
\* wrappers are elements, the child has name '' and no children.
C16_Witness ==
    /\ "type" \notin source.has
    /\ Len(source.children) = 2
    /\ source.children[1].has = {}
    /\ nodes[root].type = "element"
    /\ nodes[root].parentNode = NULL
    /\ Len(nodes[root].children) = 2
    /\ LET c == nodes[root].children[1]
       IN /\ nodes[c].type = "element"
          /\ nodes[c].name = EmptyStr
          /\ nodes[c].children = <<>>
          /\ nodes[c].parentNode = root
    /\ nodes[nodes[nodes[root].children[2]].children[2]].name = <<"rect">>

\* ------------------------------------------------------ parseSvg: SpecParse
\* What the call of optimize(svgString, ...) does with the source text: it
\* calls the 'fetch-ast' plugin with a root ("root"), returns without
\* having handed over a root ("none"), or throws an error of its own
\* ("throws").
NoTree == Data({}, "", EmptyStr, NoAttributes, NULL, <<>>)

ParserOutcomes ==
    {[outcome |-> "root", xastRoot |-> t] : t \in QueryTrees}
    \cup {[outcome |-> "none", xastRoot |-> NoTree],
          [outcome |-> "throws", xastRoot |-> NoTree]}

ParseFailure == "SVGO failed to parse SVG"
ParserError == "error thrown by optimize"

\* A parseSvg that wraps an empty root when no root was handed over.
parseSvgDummyRoot(svg) ==
    IF svg.outcome = "throws"
    THEN [threw |-> TRUE, error |-> ParserError, h |-> EmptyArena,
          node |-> NULL]
    ELSE [threw |-> FALSE, error |-> "",
          h |-> JSAPI(IF svg.outcome = "root" THEN svg.xastRoot
                      ELSE Data({"type"}, "root", EmptyStr, NoAttributes,
                                NULL, <<>>),
                      NULL, EmptyArena),
          node |-> 1]

\* parseSvg(svgString): [threw, error, h, node]; h holds the objects
\* constructed, node is the returned Node.
parseSvg(svg) ==
    IF svg.outcome = "throws"
    THEN [threw |-> TRUE, error |-> ParserError, h |-> EmptyArena,
          node |-> NULL]
    ELSE IF svg.outcome # "root"
         THEN [threw |-> TRUE, error |-> ParseFailure, h |-> EmptyArena,
               node |-> NULL]
         ELSE [threw |-> FALSE, error |-> "",
               h |-> JSAPI(svg.xastRoot, NULL, EmptyArena), node |-> 1]

\* Before parseSvg is called: no Node exists.
InitParse ==
    /\ ToolsIdle
    /\ source \in ParserOutcomes
    /\ nodes = <<>>
    /\ attrObjs = <<>>
    /\ root = NULL
    /\ last = NoOp
    /\ steps = 0

\* parseSvg(svgString)
ParseSvg ==
    /\ last = NoOp
    /\ nodes = <<>>
    /\ LET r == parseSvg(source)
       IN /\ nodes' = r.h.nodes
          /\ attrObjs' = r.h.attrObjs
          /\ root' = r.node
          /\ last' = [op |-> "parseSvg", threw |-> r.threw,
                      error |-> r.error, result |-> r.node]
    /\ UNCHANGED <<source, steps>>
    /\ UNCHANGED toolVars

NextParse == ParseSvg \/ QuerySelector

\* Parse a text, then query the returned tree once.
SpecParse == InitParse /\ [][NextParse]_vars

MaxEdits == 2       \* addAttr / removeAttr calls in one behaviour

FillRed == AttrRecord(<<"fill">>, <<"red">>, <<"fill">>, EmptyStr)

\* Source descriptions of a g with one path, with the collections the
\* description itself holds: flat `attributes` mappings; prepared `attrs`
\* collections (objects 1 and 2 of the arena); and both fields at once.
EditSources ==
    { [data |-> ElA(<<"g">>, Fill(<<"red">>),
                    << ElA(<<"path">>, Fill(<<"red">>), <<>>) >>),
       objs |-> <<>>],
      [data |-> Data({"type", "name", "attrs", "children"}, "element",
                     <<"g">>, NoAttributes, 1,
                     << Data({"type", "name", "attrs"}, "element",
                             <<"path">>, NoAttributes, 2, <<>>) >>),
       objs |-> << [k \in {<<"fill">>} |-> FillRed],
                   [k \in {<<"fill">>} |-> FillRed] >>],
      [data |-> Data({"type", "name", "attributes", "attrs", "children"},
                     "element", <<"g">>, Fill(<<"red">>), 1,
                     << Leaf(<<"path">>) >>),
       objs |-> << [k \in {<<"fill">>} |-> FillRed] >>] }

\* Attribute names and records passed to removeAttr and addAttr; the last
\* record has a local part and prefix that _addAttrInternal would not
\* compute.
EditNames == {<<"fill">>, <<"href">>, <<"xlink", ":", "href">>}

EditRecords ==
    {AttrRecord(n, v, n, EmptyStr) : n \in EditNames,
                                     v \in {<<"red">>, <<"Red">>}}
    \cup {AttrRecord(<<"fill">>, <<"red">>, <<"href">>, <<"xlink">>)}

\* Two trees wrapped from the same source description.
InitEdit ==
    /\ ToolsIdle
    /\ \E e \in EditSources :
        LET h1 == JSAPI(e.data, NULL, [nodes |-> <<>>, attrObjs |-> e.objs])
            h2 == JSAPI(e.data, NULL, h1)
        IN /\ source = e.data
           /\ nodes = h2.nodes
           /\ attrObjs = h2.attrObjs
           /\ root = 1
           /\ last = NoOp
           /\ steps = 0

\* this.addAttr(attrObj)
AddAttr ==
    /\ steps < MaxEdits
    /\ \E this \in DOMAIN nodes, attrObj \in EditRecords :
         /\ attrObjs' = addAttr(attrObjs, nodes, this, attrObj)
         /\ last' = [op |-> "addAttr", this |-> this, name |-> attrObj.name,
                     attrObj |-> attrObj, preNodes |-> nodes,
                     preAttrObjs |-> attrObjs]
    /\ steps' = steps + 1
    /\ UNCHANGED <<source, nodes, root>>
    /\ UNCHANGED toolVars

\* this.removeAttr(name)
RemoveAttr ==
    /\ steps < MaxEdits
    /\ \E this \in DOMAIN nodes, name \in EditNames :
         /\ attrObjs' = removeAttr(attrObjs, nodes, this, name)
         /\ last' = [op |-> "removeAttr", this |-> this, name |-> name,
                     attrObj |-> AttrRecord(name, EmptyStr, EmptyStr,
                                            EmptyStr),
                     preNodes |-> nodes, preAttrObjs |-> attrObjs]
    /\ steps' = steps + 1
    /\ UNCHANGED <<source, nodes, root>>
    /\ UNCHANGED toolVars

NextEdit == AddAttr \/ RemoveAttr

\* Wrap one source twice, then add and remove attributes.
SpecEdit == InitEdit /\ [][NextEdit]_vars

\* ------------------------------------------------- attribute edits: claims
\* The root of the second tree: the first wrap made one node per
\* description of the source.
SecondRoot == SizeOf(source) + 1

\* The collections that the source description itself refers to.
RECURSIVE AttrsRefs(_)
AttrsRefs(data) ==
    (IF "attrs" \in data.has THEN {data.attrs} ELSE {})
    \cup (IF "children" \in data.has
          THEN UNION {AttrsRefs(data.children[i]) : i \in DOMAIN data.children}
          ELSE {})

LastEdit == last.op \in {"addAttr", "removeAttr"}

\* C17: a wrapped tree shares no mutable state with its source or with a
\* second tree wrapped from the same source: addAttr / removeAttr on a node
\* of the first tree leaves the collections of the source description and
\* the attributes of every node of the second tree unchanged, for a source
\* with flat `attributes` and for a source with prepared `attrs`.
C17_NoSharedState ==
    (LastEdit /\ last.this \in Subtree(root)) =>
        /\ \A i \in AttrsRefs(source) : attrObjs[i] = last.preAttrObjs[i]
        /\ \A n \in Subtree(SecondRoot) :
               attrObjs[nodes[n].attrs] = last.preAttrObjs[nodes[n].attrs]

\* C19: addAttr(record) stores the record as given under record.name,
\* replacing what was stored there and leaving the other attributes and
\* every node's name, children and parentNode unchanged; attr(record.name)
\* then returns that record and hasAttr(record.name, record.value) is true.
\* removeAttr(name) leaves no entry under the name and the other entries
\* as they were; removeAttr of a name with no entry changes nothing.
C19_AddRemoveAttr ==
    LastEdit =>
        LET ref == nodes[last.this].attrs
            obj == attrObjs[ref]
            pre == last.preAttrObjs[ref]
        IN /\ nodes = last.preNodes
           /\ \A k \in (DOMAIN obj \cup DOMAIN pre) \ {last.name} :
                  /\ k \in DOMAIN obj
                  /\ k \in DOMAIN pre
                  /\ obj[k] = pre[k]
           /\ last.op = "addAttr" =>
                  /\ last.name = last.attrObj.name
                  /\ last.name \in DOMAIN obj
                  /\ obj[last.name] = last.attrObj
                  /\ attr(obj, last.name) =
                         [kind |-> "own", rec |-> last.attrObj]
                  /\ hasAttr(obj, last.name,
                             [given |-> TRUE, v |-> last.attrObj.value])
                  /\ last.name \notin
                         DOMAIN removeAttr(attrObjs, nodes, last.this,
                                           last.name)[ref]
           /\ last.op = "removeAttr" =>
                  /\ last.name \notin DOMAIN obj
                  /\ last.name \notin DOMAIN pre =>
                         attrObjs = last.preAttrObjs

\* addAttr of a fill record whose local part and prefix no constructor
\* would compute, on a node that already stores fill and href: the fill
\* record is replaced by the given one, href stays.
C19_Witness ==
    /\ last.op = "addAttr"
    /\ last.attrObj = AttrRecord(<<"fill">>, <<"red">>, <<"href">>,
                                 <<"xlink">>)
    /\ LET ref == nodes[last.this].attrs
       IN /\ DOMAIN last.preAttrObjs[ref] = {<<"fill">>, <<"href">>}
          /\ last.preAttrObjs[ref][<<"fill">>] = FillRed
          /\ attrObjs[ref][<<"fill">>] = last.attrObj
          /\ attrObjs[ref][<<"href">>] = last.preAttrObjs[ref][<<"href">>]

\* --------------------------------------------- repeated queries: SpecPure
MaxCalls == 3       \* method calls in one behaviour of SpecPure

\* JSAPI.renameElem(newName)
renameElem(ns, this, newName) == [ns EXCEPT ![this].name = newName]

PureTrees ==
    { El(<<"svg">>,
         << El(<<"g">>, << ElA(<<"path">>, Fill(<<"red">>), <<>>),
                           TextData >>),
            Leaf(<<"path">>) >>) }

PureSelectors ==
    { <<"path">>, <<"path", ",", " ", "g">>,
      AttrSelector(EmptyStr, <<"fill">>, <<"red">>) }

NewNames == { <<"path">>, <<"g">> }

InitPure ==
    /\ ToolsIdle
    /\ \E src \in PureTrees :
        LET h == JSAPI(src, NULL, EmptyArena)
        IN /\ source = src
           /\ nodes = h.nodes
           /\ attrObjs = h.attrObjs
           /\ root = 1
           /\ last = NoOp
           /\ steps = 0

\* The last call was this very query: nothing has run in between.
SameQuery(this, selector) ==
    /\ last.op = "querySelectorAll"
    /\ last.this = this
    /\ last.selector = selector

\* A querySelectorAll whose traversal takes the children out of each
\* visited node.
QuerySelectorAllConsuming ==
    /\ steps < MaxCalls
    /\ \E this \in DOMAIN nodes, selector \in PureSelectors :
         /\ last' = [op |-> "querySelectorAll", this |-> this,
                     selector |-> selector,
                     result |-> querySelectorAll(this, selector),
                     again |-> SameQuery(this, selector),
                     before |-> IF SameQuery(this, selector)
                                THEN last.result ELSE <<>>,
                     preNodes |-> nodes, preAttrObjs |-> attrObjs]
         /\ nodes' = [n \in DOMAIN nodes |->
                         IF n \in Subtree(this)
                         THEN [nodes[n] EXCEPT !.children = <<>>]
                         ELSE nodes[n]]
    /\ steps' = steps + 1
    /\ UNCHANGED <<source, attrObjs, root>>
    /\ UNCHANGED toolVars

\* this.querySelectorAll(selector), with the state before the call and
\* the result of the call before it when that was the same query.
QuerySelectorAllCall ==
    /\ steps < MaxCalls
    /\ \E this \in DOMAIN nodes, selector \in PureSelectors :
         last' = [op |-> "querySelectorAll", this |-> this,
                  selector |-> selector,
                  result |-> querySelectorAll(this, selector),
                  again |-> SameQuery(this, selector),
                  before |-> IF SameQuery(this, selector)
                             THEN last.result ELSE <<>>,
                  preNodes |-> nodes, preAttrObjs |-> attrObjs]
    /\ steps' = steps + 1
    /\ UNCHANGED <<source, nodes, attrObjs, root>>
    /\ UNCHANGED toolVars

\* The last call was a traversal from this node.
SameTraversal(this) == last.op = "_traverse" /\ last.this = this

\* this._traverse(callback): the nodes the callback is called on, in order.
Traverse ==
    /\ steps < MaxCalls
    /\ \E this \in DOMAIN nodes :
         last' = [op |-> "_traverse", this |-> this,
                  visited |-> _traverse(this),
                  again |-> SameTraversal(this),
                  before |-> IF SameTraversal(this)
                             THEN last.visited ELSE <<>>]
    /\ steps' = steps + 1
    /\ UNCHANGED <<source, nodes, attrObjs, root>>
    /\ UNCHANGED toolVars

\* this.renameElem(newName)
RenameElem ==
    /\ steps < MaxCalls
    /\ \E this \in DOMAIN nodes, newName \in NewNames :
         /\ nodes' = renameElem(nodes, this, newName)
         /\ last' = [op |-> "renameElem", this |-> this,
                     newName |-> newName]
    /\ steps' = steps + 1
    /\ UNCHANGED <<source, attrObjs, root>>
    /\ UNCHANGED toolVars

NextPure == QuerySelectorAllCall \/ Traverse \/ RenameElem

\* Wrap a tree, then query, traverse and rename in any order.
SpecPure == InitPure /\ [][NextPure]_vars

C20_PreOrderTraversal ==
    last.op = "_traverse" =>
        /\ Range(last.visited) = Subtree(last.this)
        /\ Len(last.visited) = Cardinality(Subtree(last.this))
        /\ InDocumentOrder(last.this, last.visited)
        /\ last.again => last.visited = last.before

\* The second of two traversals from the svg: svg, g, path, text, path.
C20_Witness ==
    /\ last.op = "_traverse"
    /\ last.again
    /\ last.this = root
    /\ Len(last.visited) = 5
    /\ last.visited[1] = root
    /\ nodes[last.visited[2]].name = <<"g">>
    /\ nodes[last.visited[4]].type = "text"
    /\ nodes[last.visited[5]].parentNode = root
    /\ last.before = last.visited

\* ================================================== svgTool: the convert tool
MAX_CACHE_SIZE == 32

MaxRequests == 2    \* handler invocations in one behaviour

\* options = { floatPrecision, fillBlack, xmlTag, tint }; tint is
\* [given, v], given = FALSE for undefined.
Options(floatPrecision, fillBlack, xmlTag, tint) ==
    [floatPrecision |-> floatPrecision, fillBlack |-> fillBlack,
     xmlTag |-> xmlTag, tint |-> tint]

NoTint == [given |-> FALSE, v |-> EmptyStr]
Tint(v) == [given |-> TRUE, v |-> v]

\* JSON.stringify of a string: quotes around it, '"' and '\' escaped.
RECURSIVE EscapeJson(_)
EscapeJson(str) ==
    IF str = EmptyStr THEN EmptyStr
    ELSE (IF Head(str) \in {"\"", "\\"} THEN <<"\\", Head(str)>>
          ELSE <<Head(str)>>)
         \o EscapeJson(Tail(str))

BoolText(b) == IF b THEN "true" ELSE "false"

\* JSON.stringify(options): the keys in the order of the literal, a key
\* whose value is undefined left out.
JsonStringify(options) ==
    <<"{", "\"", "floatPrecision", "\"", ":",
      ToString(options.floatPrecision), ",",
      "\"", "fillBlack", "\"", ":", BoolText(options.fillBlack), ",",
      "\"", "xmlTag", "\"", ":", BoolText(options.xmlTag)>>
    \o (IF options.tint.given
        THEN <<",", "\"", "tint", "\"", ":", "\"">>
             \o EscapeJson(options.tint.v) \o <<"\"">>
        ELSE <<>>)
    \o <<"}">>

\* createHash('sha256') ... digest('hex') of the bytes fed to it: a digest
\* names its input (no two inputs with one digest).
Sha256Hex(bytes) == <<"sha256">> \o bytes

\* A key made from the SVG text alone.
makeCacheKeySvgOnly(svg, options) == Sha256Hex(svg)

\* makeCacheKey(svg, options)
makeCacheKey(svg, options) == Sha256Hex(svg \o JsonStringify(options))

\* ---- Map, as the sequence of its entries in insertion order
MapHas(m, key) == \E i \in DOMAIN m : m[i].key = key

MapIndex(m, key) == CHOOSE i \in DOMAIN m : m[i].key = key

\* Map.prototype.delete
MapDelete(m, key) ==
    IF MapHas(m, key)
    THEN LET i == MapIndex(m, key)
         IN SubSeq(m, 1, i - 1) \o SubSeq(m, i + 1, Len(m))
    ELSE m

\* Map.prototype.set: a present key keeps its place, a new key goes last.
MapSet(m, key, value) ==
    IF MapHas(m, key)
    THEN [m EXCEPT ![MapIndex(m, key)].value = value]
    ELSE Append(m, [key |-> key, value |-> value])

\* What the converter may resolve to: a string or something else.
Str(text) == [isString |-> TRUE, text |-> text]
NotAString == [isString |-> FALSE, text |-> EmptyStr]

\* !xml for a converter result or a cache lookup
Falsy(xml) == ~xml.isString \/ xml.text = EmptyStr

\* getCached(key): [cache, result, found]; a hit moves the entry to the
\* newest place.
getCached(cache, key) ==
    IF ~MapHas(cache, key) \/ Falsy(cache[MapIndex(cache, key)].value)
    THEN [cache |-> cache, result |-> NotAString, found |-> FALSE]
    ELSE LET existing == cache[MapIndex(cache, key)].value
         IN [cache |-> MapSet(MapDelete(cache, key), key, existing),
             result |-> existing, found |-> TRUE]

\* A setCache that evicts only above the limit.
setCacheAboveLimit(cache, key, value) ==
    MapSet(IF Len(cache) > MAX_CACHE_SIZE
           THEN MapDelete(cache, cache[1].key) ELSE cache,
           key, value)

\* A setCache that leaves the value of a present key as it is.
setCacheIfAbsent(cache, key, value) ==
    IF MapHas(cache, key) THEN cache
    ELSE MapSet(IF Len(cache) >= MAX_CACHE_SIZE /\ cache # <<>>
                THEN MapDelete(cache, cache[1].key) ELSE cache,
                key, value)

\* setCache(key, value)
setCache(cache, key, value) ==
    MapSet(IF Len(cache) >= MAX_CACHE_SIZE /\ cache # <<>>
           THEN MapDelete(cache, cache[1].key) ELSE cache,
           key, value)

\* ---- node:path (posix).  A path is a sequence of atoms: "/" separates,
\* "." and ".." are the dot segments, an extension (".png", ".xml") is an
\* atom of its own after a name.
Cwd == <<"/", "work">>

\* The segments between the separators (empty ones included).
RECURSIVE SplitPath(_, _)
SplitPath(p, seg) ==
    IF p = <<>> THEN <<seg>>
    ELSE IF Head(p) = "/" THEN <<seg>> \o SplitPath(Tail(p), <<>>)
    ELSE SplitPath(Tail(p), Append(seg, Head(p)))

\* Empty and "." segments go, ".." removes the segment before it.
RECURSIVE NormalizeSegments(_, _)
NormalizeSegments(segs, acc) ==
    IF segs = <<>> THEN acc
    ELSE IF Head(segs) \in {<<>>, <<".">>}
    THEN NormalizeSegments(Tail(segs), acc)
    ELSE IF Head(segs) = <<"..">>
    THEN NormalizeSegments(Tail(segs),
                           IF acc = <<>> THEN acc
                           ELSE SubSeq(acc, 1, Len(acc) - 1))
    ELSE NormalizeSegments(Tail(segs), Append(acc, Head(segs)))

RECURSIVE JoinSegments(_)
JoinSegments(segs) ==
    IF segs = <<>> THEN <<>>
    ELSE <<"/">> \o Head(segs) \o JoinSegments(Tail(segs))

\* path.resolve(p): an absolute, normalized path without a trailing "/".
pathResolve(p) ==
    LET abs == IF p # <<>> /\ Head(p) = "/" THEN p ELSE Cwd \o <<"/">> \o p
        segs == NormalizeSegments(SplitPath(abs, <<>>), <<>>)
    IN IF segs = <<>> THEN <<"/">> ELSE JoinSegments(segs)

\* path.dirname of a resolved path
pathDirname(p) ==
    LET segs == NormalizeSegments(SplitPath(p, <<>>), <<>>)
    IN IF Len(segs) <= 1 THEN <<"/">>
       ELSE JoinSegments(SubSeq(segs, 1, Len(segs) - 1))

\* ---- the handler of convert-svg-to-android-drawable
\* params of one invocation (inline svg); outputPath is [given, v].
ConvertParams(svg, options, cache, outputPath) ==
    [svg |-> svg, options |-> options, cache |-> cache,
     outputPath |-> outputPath]

NoPath == [given |-> FALSE, v |-> EmptyStr]

ConversionError == "Conversion did not produce XML"

\* One invocation of the handler.  pc is the await it is suspended at:
\* "loading" (loadSvg), "converting" (svg2vectordrawable), "writing"
\* (maybeWriteOutput); or "done" / "failed".  looked: getCached was
\* called; converted: the converter was invoked; content: the texts of
\* the returned content items.
NewRequest(params) ==
    [params |-> params, pc |-> "loading", key |-> EmptyStr,
     xml |-> NotAString, looked |-> FALSE, converted |-> FALSE,
     content |-> <<>>, error |-> ""]

\* An entry of the log of calls.
Event(op, r, key, value) == [op |-> op, req |-> r, key |-> key, value |-> value]

\* Lines 95-112: after loadSvg the key is made and, with cache = true, the
\* cache is read; a hit goes on to maybeWriteOutput, anything else calls
\* the converter.
Lookup ==
    /\ \E r \in DOMAIN requests :
         /\ requests[r].pc = "loading"
         /\ LET q == requests[r]
                cacheKey == makeCacheKey(q.params.svg, q.params.options)
                g == getCached(conversionCache, cacheKey)
            IN IF q.params.cache
               THEN /\ conversionCache' = g.cache
                    /\ calls' = Append(calls, Event("getCached", r, cacheKey,
                                                    g.result))
                    /\ requests' =
                          [requests EXCEPT ![r] =
                              [q EXCEPT !.key = cacheKey, !.looked = TRUE,
                                        !.xml = g.result,
                                        !.pc = IF g.found THEN "writing"
                                               ELSE "converting"]]
               ELSE /\ requests' =
                          [requests EXCEPT ![r] =
                              [q EXCEPT !.key = cacheKey,
                                        !.pc = "converting"]]
                    /\ UNCHANGED <<conversionCache, calls>>
         /\ last' = [op |-> "lookup", req |-> r, pre |-> conversionCache]
    /\ UNCHANGED jsapiVars
    /\ UNCHANGED steps

\* What svg2vectordrawable may resolve to for invocation r: the XML of
\* that conversion, an empty string, or something that is no string.
ConverterResults(r) ==
    { Str(<<"<vector>", ToString(r)>>), Str(EmptyStr), NotAString }

\* Lines 112-117: the converter resolves; a result that is not a non-empty
\* string fails the tool, any other is stored under the key.
ConverterReturns ==
    /\ \E r \in DOMAIN requests : \E out \in ConverterResults(r) :
         /\ requests[r].pc = "converting"
         /\ LET q == requests[r]
            IN IF Falsy(out)
               THEN /\ requests' =
                          [requests EXCEPT ![r] =
                              [q EXCEPT !.converted = TRUE, !.pc = "failed",
                                        !.error = ConversionError]]
                    /\ calls' = Append(calls, Event("convert", r, q.key, out))
                    /\ UNCHANGED conversionCache
               ELSE /\ requests' =
                          [requests EXCEPT ![r] =
                              [q EXCEPT !.converted = TRUE, !.xml = out,
                                        !.pc = "writing"]]
                    /\ calls' = calls \o <<Event("convert", r, q.key, out),
                                            Event("setCache", r, q.key, out)>>
                    /\ conversionCache' =
                          setCache(conversionCache, q.key, out)
         /\ last' = [op |-> "converted", req |-> r, pre |-> conversionCache]
    /\ UNCHANGED jsapiVars
    /\ UNCHANGED steps

\* Line 112: the converter rejects; the handler fails with its error and
\* nothing is stored.
ConverterRejects ==
    /\ \E r \in DOMAIN requests :
         /\ requests[r].pc = "converting"
         /\ requests' =
               [requests EXCEPT ![r] =
                   [requests[r] EXCEPT !.converted = TRUE, !.pc = "failed",
                                       !.error = "converter rejected"]]
         /\ calls' = Append(calls, Event("convert", r, requests[r].key,
                                         NotAString))
         /\ last' = [op |-> "rejected", req |-> r, pre |-> conversionCache]
    /\ UNCHANGED conversionCache
    /\ UNCHANGED jsapiVars
    /\ UNCHANGED steps

\* Lines 119-144: maybeWriteOutput settles (it can only fail with an
\* outputPath), then the content is assembled and returned.
WriteOutput ==
    /\ \E r \in DOMAIN requests, written \in BOOLEAN :
         /\ requests[r].pc = "writing"
         /\ written \/ requests[r].params.outputPath.given
         /\ LET q == requests[r]
                saved == q.params.outputPath.given
            IN requests' =
                  [requests EXCEPT ![r] =
                      IF written
                      THEN [q EXCEPT
                               !.pc = "done",
                               !.content =
                                   (IF saved
                                    THEN << <<"Saved VectorDrawable to ">>
                                            \o pathResolve(
                                                 q.params.outputPath.v) >>
                                    ELSE <<>>)
                                   \o <<q.xml.text>>]
                      ELSE [q EXCEPT !.pc = "failed",
                                     !.error = "writeFile failed"]]
         /\ last' = [op |-> "written", req |-> r, pre |-> conversionCache]
    /\ UNCHANGED <<conversionCache, calls>>
    /\ UNCHANGED jsapiVars
    /\ UNCHANGED steps

\* ------------------------------------------------------- cache: SpecCache
DefaultOptions == Options(2, FALSE, FALSE, NoTint)

\* The i-th of the SVG texts converted before the behaviour starts.
EarlierSvg(i) == <<"<svg>", ToString(i), "</svg>">>

\* The cache after the first n of them have been converted, one after the
\* other, with the default options (the log starts after that).
EarlierCache(n) ==
    [i \in 1..n |->
        [key |-> makeCacheKey(EarlierSvg(i), DefaultOptions),
         value |-> Str(<<"<vector>", "0">>)]]

\* The entries of all the earlier conversions.
EarlierEntries ==
    { EarlierCache(MAX_CACHE_SIZE)[n] : n \in 1..MAX_CACHE_SIZE }

EarlierSizes == {0, MAX_CACHE_SIZE - 1, MAX_CACHE_SIZE}

NewSvg == <<"<svg>", "new", "</svg>">>

TintedOptions == Options(2, FALSE, FALSE, Tint(<<"#", "F">>))

\* Requests: the oldest and the second oldest of the earlier texts, and a
\* new text.
CacheParams ==
    { ConvertParams(EarlierSvg(1), DefaultOptions, TRUE, NoPath),
      ConvertParams(EarlierSvg(2), DefaultOptions, FALSE, NoPath),
      ConvertParams(NewSvg, DefaultOptions, TRUE, NoPath),
      ConvertParams(NewSvg, DefaultOptions, FALSE, NoPath) }

JsapiIdle ==
    /\ source = NoTree
    /\ nodes = <<>>
    /\ attrObjs = <<>>
    /\ root = NULL
    /\ steps = 0

InitCache ==
    /\ JsapiIdle
    /\ \E n \in EarlierSizes :
         /\ conversionCache = EarlierCache(n)
         /\ calls = <<>>
    /\ requests = <<>>
    /\ last = NoOp

\* The handler is invoked.
ConvertRequest ==
    /\ Len(requests) < MaxRequests
    /\ \E params \in CacheParams :
         requests' = Append(requests, NewRequest(params))
    /\ last' = [op |-> "request", req |-> Len(requests) + 1,
                pre |-> conversionCache]
    /\ UNCHANGED <<conversionCache, calls>>
    /\ UNCHANGED jsapiVars
    /\ UNCHANGED steps

NextCache ==
    \/ ConvertRequest
    \/ Lookup
    \/ ConverterReturns
    \/ ConverterRejects
    \/ WriteOutput

\* Invocations of the convert tool, interleaved at their awaits.
SpecCache == InitCache /\ [][NextCache]_vars

\* ------------------------------------------------- convert: SpecConvert
\* The JSON of the tinted options up to the opening quote of the tint.
OpenTint ==
    SubSeq(JsonStringify(TintedOptions), 1,
           Len(JsonStringify(TintedOptions)) - 4)

\* An SVG text that ends like the start of the options' JSON, and a tint
\* that holds JSON text.
LongSvg == NewSvg \o OpenTint
JsonTint == Tint(OpenTint \o <<"#", "F">>)

OutPath == [given |-> TRUE, v |-> <<"res", "/", "..", "/", "ic", ".xml">>]

\* Inputs that differ in the text or in one option each.
ConvertInputs ==
    { ConvertParams(NewSvg, DefaultOptions, TRUE, NoPath),
      ConvertParams(NewSvg, DefaultOptions, TRUE, OutPath),
      ConvertParams(NewSvg, DefaultOptions, FALSE, NoPath),
      ConvertParams(NewSvg, Options(3, FALSE, FALSE, NoTint), TRUE, NoPath),
      ConvertParams(NewSvg, Options(2, TRUE, FALSE, NoTint), TRUE, NoPath),
      ConvertParams(NewSvg, Options(2, FALSE, TRUE, NoTint), TRUE, NoPath),
      ConvertParams(NewSvg, TintedOptions, TRUE, NoPath),
      ConvertParams(NewSvg, Options(2, FALSE, FALSE, JsonTint), TRUE, NoPath),
      ConvertParams(LongSvg, TintedOptions, TRUE, NoPath),
      ConvertParams(EarlierSvg(1), DefaultOptions, TRUE, NoPath) }

InitConvert ==
    /\ JsapiIdle
    /\ ToolsIdle
    /\ last = NoOp

\* The handler is invoked when no invocation is in flight.
ConvertCall ==
    /\ Len(requests) < MaxRequests
    /\ \A r \in DOMAIN requests : requests[r].pc \in {"done", "failed"}
    /\ \E params \in ConvertInputs :
         requests' = Append(requests, NewRequest(params))
    /\ last' = [op |-> "request", req |-> Len(requests) + 1,
                pre |-> conversionCache]
    /\ UNCHANGED <<conversionCache, calls>>
    /\ UNCHANGED jsapiVars
    /\ UNCHANGED steps

NextConvert ==
    \/ ConvertCall
    \/ Lookup
    \/ ConverterReturns
    \/ ConverterRejects
    \/ WriteOutput

\* Invocations of the convert tool one after the other, from the empty
\* cache.
SpecConvert == InitConvert /\ [][NextConvert]_vars

\* ------------------------------------------------------------ cache: claims
\* C21: the conversion cache never holds more than 32 entries, and every
\* stored value is a non-empty string that the converter returned for a
\* request with that key.
C21_CacheBounded ==
    /\ Len(conversionCache) <= MAX_CACHE_SIZE
    /\ \A i \in DOMAIN conversionCache :
          LET e == conversionCache[i]
          IN /\ e.value.isString
             /\ e.value.text # EmptyStr
             /\ \/ \E j \in DOMAIN calls :
                       /\ calls[j].op = "convert"
                       /\ calls[j].key = e.key
                       /\ calls[j].value = e.value
                \/ e \in EarlierEntries

\* A new key has been stored in a cache of 32 entries: there are 32 again.
C21_Witness ==
    /\ last.op = "converted"
    /\ Len(last.pre) = MAX_CACHE_SIZE
    /\ requests[last.req].pc = "writing"
    /\ ~MapHas(last.pre, requests[last.req].key)
    /\ MapHas(conversionCache, requests[last.req].key)
    /\ Len(conversionCache) = MAX_CACHE_SIZE

\* The position in the log of the most recent use of a key among the
\* first n entries: a store through setCache or a hit through getCached.
\* A key not used since the log began has the place of its earlier
\* conversion, below zero.
IsUse(c, key) ==
    /\ c.key = key
    /\ \/ c.op = "setCache"
       \/ c.op = "getCached" /\ c.value.isString

RECURSIVE LastUse(_, _)
LastUse(n, key) ==
    IF n = 0
    THEN MapIndex(EarlierCache(MAX_CACHE_SIZE), key) - MAX_CACHE_SIZE - 1
    ELSE IF IsUse(calls[n], key) THEN n
    ELSE LastUse(n - 1, key)

\* The keys the last store removed from the cache.
Evicted ==
    { last.pre[i].key : i \in DOMAIN last.pre }
    \ { conversionCache[i].key : i \in DOMAIN conversionCache }

\* The last step stored a converter result.
Stored ==
    /\ last.op = "converted"
    /\ requests[last.req].pc = "writing"

\* C22: the cache is LRU.  Whenever a store evicts an entry, the key stored
\* was a new one and the cache held 32 entries, and the evicted entry is
\* the one whose most recent use (hit or store, a re-store included) is
\* older than that of every other entry.
C22_LruEviction ==
    Stored =>
        \A k \in Evicted :
            /\ ~MapHas(last.pre, requests[last.req].key)
            /\ Len(last.pre) = MAX_CACHE_SIZE
            /\ \A i \in DOMAIN last.pre :
                   last.pre[i].key # k =>
                       LastUse(Len(calls) - 2, k)
                           < LastUse(Len(calls) - 2, last.pre[i].key)

\* ---------------------------------------------------------- convert: claims
SameInputs(p1, p2) == p1.svg = p2.svg /\ p1.options = p2.options

\* C23: with cache = true, a request whose SVG text and options are those
\* of an entry in the cache gets that entry's XML and the converter is not
\* invoked for it; requests that differ in the text or in an option have
\* different keys, and every entry belongs to the inputs that stored it.
C23_HitsAndSeparateKeys ==
    /\ \A r \in DOMAIN requests :
          LET q == requests[r]
              key == makeCacheKey(q.params.svg, q.params.options)
          IN /\ (last.op = "lookup" /\ last.req = r /\ q.params.cache
                    /\ MapHas(last.pre, key))
                 => /\ q.pc = "writing"
                    /\ ~q.converted
                    /\ q.xml = last.pre[MapIndex(last.pre, key)].value
                    /\ calls[Len(calls)].op = "getCached"
             /\ (q.pc = "done" /\ ~q.converted)
                 => /\ q.content[Len(q.content)] = q.xml.text
                    /\ \A j \in DOMAIN calls :
                          calls[j].req = r => calls[j].op # "convert"
    /\ \A r1, r2 \in DOMAIN requests :
          (/\ requests[r1].pc # "loading"
           /\ requests[r2].pc # "loading"
           /\ requests[r1].key = requests[r2].key)
          => SameInputs(requests[r1].params, requests[r2].params)
    /\ \A i \in DOMAIN conversionCache :
          \E r \in DOMAIN requests :
             /\ requests[r].converted
             /\ conversionCache[i].key
                   = makeCacheKey(requests[r].params.svg,
                                  requests[r].params.options)

\* The second request had the inputs of the first and got its XML from the
\* cache.
C23_Witness ==
    /\ Len(requests) = 2
    /\ SameInputs(requests[1].params, requests[2].params)
    /\ requests[1].converted
    /\ requests[2].pc = "done"
    /\ ~requests[2].converted
    /\ requests[2].content = <<requests[1].xml.text>>

\* C24: invoked with an inline svg and no outputPath, the handler returns a
\* result whose second content item is the VectorDrawable XML.
C24_SecondItemIsXml ==
    \A r \in DOMAIN requests :
        (requests[r].pc = "done" /\ ~requests[r].params.outputPath.given)
        => /\ Len(requests[r].content) >= 2
           /\ requests[r].content[2] = requests[r].xml.text

\* The position in the log of the last store under a key before
\* position n (0: none).
RECURSIVE LastStore(_, _)
LastStore(n, key) ==
    IF n = 0 THEN 0
    ELSE IF calls[n].op = "setCache" /\ calls[n].key = key THEN n
    ELSE LastStore(n - 1, key)

\* C27: a request with cache = false never reads the cache and always
\* invokes the converter, and its fresh result is stored under its key; a
\* later request with cache = true and the same inputs is served the stored
\* result from the cache.
C27_NoCacheStillStores ==
    /\ \A r \in DOMAIN requests :
          ~requests[r].params.cache =>
             /\ ~requests[r].looked
             /\ \A j \in DOMAIN calls :
                   calls[j].req = r => calls[j].op # "getCached"
             /\ requests[r].pc \in {"writing", "done"}
                  => requests[r].converted
             /\ (Stored /\ last.req = r)
                  => /\ MapHas(conversionCache, requests[r].key)
                     /\ conversionCache[MapIndex(conversionCache,
                                                 requests[r].key)].value
                          = requests[r].xml
    /\ \A j \in DOMAIN calls :
          (/\ calls[j].op = "getCached"
           /\ \E i \in 1..(j - 1) :
                 /\ calls[i].op = "setCache"
                 /\ calls[i].key = calls[j].key
                 /\ calls[i].req \in DOMAIN requests
                 /\ ~requests[calls[i].req].params.cache)
          => /\ calls[j].value = calls[LastStore(j - 1, calls[j].key)].value
             /\ ~requests[calls[j].req].converted

\* A request with cache = false converted and stored; the next request,
\* with cache = true and the same inputs, got that XML without a conversion.
C27_Witness ==
    /\ Len(requests) = 2
    /\ SameInputs(requests[1].params, requests[2].params)
    /\ ~requests[1].params.cache
    /\ ~requests[1].looked
    /\ requests[1].converted
    /\ requests[2].params.cache
    /\ requests[2].pc = "done"
    /\ ~requests[2].converted
    /\ requests[2].xml = requests[1].xml

\* ======================================= translationTool: semantic-translate
\* ---- Numbers are IEEE 754 doubles.  A positive double is
\* [zero |-> FALSE, mant, exp]: mant its 53 significant bits, the most
\* significant (a 1) first, and exp the power of two of that first bit.
MantissaBits == 53

FloatZero == [zero |-> TRUE, mant |-> <<>>, exp |-> 0]

\* The bits of a natural number, without leading zeros.
RECURSIVE IntBits(_)
IntBits(n) == IF n = 0 THEN <<>> ELSE IntBits(n \div 2) \o <<n % 2>>

\* The number a few bits stand for, and the w low bits of a number.
RECURSIVE BitsValue(_)
BitsValue(bits) ==
    IF bits = <<>> THEN 0
    ELSE 2 * BitsValue(SubSeq(bits, 1, Len(bits) - 1)) + bits[Len(bits)]

RECURSIVE FixedBits(_, _)
FixedBits(v, w) ==
    IF w = 0 THEN <<>> ELSE FixedBits(v \div 2, w - 1) \o <<v % 2>>

\* bits + 1: [bits, carry]
Increment(bits) ==
    IF \A i \in DOMAIN bits : bits[i] = 1
    THEN [bits |-> [i \in DOMAIN bits |-> 0], carry |-> 1]
    ELSE LET z == CHOOSE i \in DOMAIN bits :
                     /\ bits[i] = 0
                     /\ \A j \in (i + 1)..Len(bits) : bits[j] = 1
         IN [bits |-> [i \in DOMAIN bits |->
                         IF i < z THEN bits[i] ELSE IF i = z THEN 1 ELSE 0],
             carry |-> 0]

\* Round to nearest, ties to even: sig holds the significant bits of the
\* exact result from its first 1 on, sticky says that more non-zero bits
\* follow, exp is the power of two of the first bit.
RoundToDouble(sig, sticky, exp) ==
    IF Len(sig) <= MantissaBits
    THEN [zero |-> FALSE,
          mant |-> sig \o [i \in 1..(MantissaBits - Len(sig)) |-> 0],
          exp |-> exp]
    ELSE LET mant == SubSeq(sig, 1, MantissaBits)
             guard == sig[MantissaBits + 1]
             rest == sticky \/ \E i \in (MantissaBits + 2)..Len(sig) :
                                   sig[i] = 1
             up == guard = 1 /\ (rest \/ mant[MantissaBits] = 1)
             inc == Increment(mant)
         IN IF ~up THEN [zero |-> FALSE, mant |-> mant, exp |-> exp]
            ELSE IF inc.carry = 1
            THEN [zero |-> FALSE,
                  mant |-> <<1>> \o [i \in 1..(MantissaBits - 1) |-> 0],
                  exp |-> exp + 1]
            ELSE [zero |-> FALSE, mant |-> inc.bits, exp |-> exp]

\* The first 10 * chunks bits of rem / d after the binary point, by long
\* division ten bits at a time, and the remainder left.
RECURSIVE FractionBits(_, _, _)
FractionBits(rem, d, chunks) ==
    IF chunks = 0 THEN [bits |-> <<>>, rem |-> rem]
    ELSE LET v == rem * (2 ^ 10)
             t == FractionBits(v % d, d, chunks - 1)
         IN [bits |-> FixedBits(v \div d, 10) \o t.bits, rem |-> t.rem]

\* n / d for natural numbers n and d > 0, as the double the division gives:
\* the bits of the integer part, then 70 bits of the fraction, rounded from
\* the first 1 on.
FloatDivide(n, d) ==
    IF n = 0 THEN FloatZero
    ELSE LET ib == IntBits(n \div d)
             t == FractionBits(n % d, d, 7)
             first == CHOOSE i \in DOMAIN t.bits :
                         /\ t.bits[i] = 1
                         /\ \A j \in 1..(i - 1) : t.bits[j] = 0
         IN IF ib # <<>>
            THEN RoundToDouble(ib \o t.bits, t.rem # 0, Len(ib) - 1)
            ELSE RoundToDouble(SubSeq(t.bits, first, Len(t.bits)),
                               t.rem # 0, 0 - first)

\* bits * k + carry for a natural number k, ten bits at a time
RECURSIVE MulBits(_, _, _)
MulBits(bits, k, carry) ==
    IF bits = <<>> THEN IntBits(carry)
    ELSE LET n == Len(bits)
             w == IF n < 10 THEN n ELSE 10
             v == BitsValue(SubSeq(bits, n - w + 1, n)) * k + carry
         IN MulBits(SubSeq(bits, 1, n - w), k, v \div (2 ^ w))
            \o FixedBits(v % (2 ^ w), w)

\* x * k for a double x and a natural number k, as a double
FloatTimes(x, k) ==
    IF x.zero \/ k = 0 THEN FloatZero
    ELSE LET p == MulBits(x.mant, k, 0)
         IN RoundToDouble(p, FALSE, x.exp + Len(p) - MantissaBits)

\* a <= b for bit sequences of one length
BitsLeq(a, b) ==
    \/ a = b
    \/ \E i \in DOMAIN a :
          /\ a[i] < b[i]
          /\ \A j \in 1..(i - 1) : a[j] = b[j]

\* x <= n for a double x >= 0 and a natural number n
FloatLeq(x, n) ==
    IF x.zero THEN TRUE
    ELSE IF n = 0 THEN FALSE
    ELSE LET nb == IntBits(n)
         IN IF x.exp # Len(nb) - 1 THEN x.exp < Len(nb) - 1
            ELSE BitsLeq(x.mant,
                         nb \o [i \in 1..(MantissaBits - Len(nb)) |-> 0])

Abs(i) == IF i < 0 THEN 0 - i ELSE i

\* calculateLengthVariance(originalLength, translatedLength)
calculateLengthVariance(originalLength, translatedLength) ==
    IF originalLength = 0 THEN FloatZero
    ELSE FloatTimes(FloatDivide(Abs(translatedLength - originalLength),
                                originalLength), 100)

\* isLengthWithinVariance(originalLength, translatedLength, maxVariance)
isLengthWithinVariance(originalLength, translatedLength, maxVariance) ==
    FloatLeq(calculateLengthVariance(originalLength, translatedLength),
             maxVariance)

\* ---- performTranslation and the handler
maxRetries == 3

\* What translate may reject with: an Error with a message, or a value
\* whose message is undefined or empty.
TranslateErrors ==
    { [hasMessage |-> TRUE, message |-> <<"socket hang up">>],
      [hasMessage |-> TRUE, message |-> <<"Too Many Requests">>],
      [hasMessage |-> FALSE, message |-> EmptyStr] }

NoError == [hasMessage |-> FALSE, message |-> EmptyStr]

\* lastError?.message || 'Unknown error'
ErrorMessage(lastError) ==
    IF lastError.hasMessage /\ lastError.message # EmptyStr
    THEN lastError.message ELSE <<"Unknown error">>

\* The message of the error performTranslation throws (line 50), and of the
\* one the handler throws for it (lines 173-176).
RetriesExhausted(lastError) ==
    <<"Translation failed after ", ToString(maxRetries), " attempts: ">>
    \o ErrorMessage(lastError)

HandlerError(message) ==
    <<"Translation failed: ">> \o message
    \o <<". Ensure target_language is valid">>

\* A wait that goes on although no attempt is left.
ShouldWaitAlways(attempt) == attempt < maxRetries

\* Line 44: is there a wait after the failure of this attempt?
ShouldWait(attempt) == attempt < maxRetries - 1

\* Line 45: Math.pow(2, attempt) * 100
BackoffDelay(attempt) == (2 ^ attempt) * 100

TranslateCall(r, attempt) ==
    [op |-> "translate", req |-> r, attempt |-> attempt, delay |-> 0]

TimeoutCall(r, attempt) ==
    [op |-> "setTimeout", req |-> r, attempt |-> attempt,
     delay |-> BackoffDelay(attempt)]

\* A text of n characters.
TextOf(n, char) == [i \in 1..n |-> char]

\* The texts to translate, the variances asked for, and the texts that
\* translate may resolve to.
Texts == { TextOf(n, "a") : n \in {1, 20, 25} }
MaxVariances == {0, 20, 28, 55, 100}
Translations == { TextOf(n, "b") : n \in {0, 1, 9, 18, 20, 30} }

\* semanticTranslateWithLengthCheck, after performTranslation returned:
\* the lengths and withinVariance.
LengthCheck(text, translatedText, max_length_variance) ==
    [translatedText |-> translatedText,
     originalLength |-> Len(text),
     translatedLength |-> Len(translatedText),
     withinVariance |->
         isLengthWithinVariance(Len(text), Len(translatedText),
                                max_length_variance)]

NoResult ==
    [translatedText |-> EmptyStr, originalLength |-> 0,
     translatedLength |-> 0, withinVariance |-> FALSE]

\* Lines 121-156: the translation, the metadata, and the warning when the
\* length is not within the variance.
TranslationContent(result) ==
    << [kind |-> "translation", text |-> result.translatedText],
       [kind |-> "metadata",
        text |-> <<"Within Tolerance: ",
                   IF result.withinVariance THEN "Yes" ELSE "No">>] >>
    \o (IF ~result.withinVariance
        THEN << [kind |-> "warning", text |-> <<"Warning">>] >>
        ELSE <<>>)

InitTranslate ==
    /\ JsapiIdle
    /\ ToolsIdle
    /\ last = NoOp

\* The handler is invoked: performTranslation makes its first call of
\* translate.
TranslateRequest ==
    /\ requests = <<>>
    /\ \E text \in Texts, variance \in MaxVariances :
         requests' =
            << [params |-> [text |-> text, max_length_variance |-> variance],
                pc |-> "translating", attempt |-> 0, lastError |-> NoError,
                resolved |-> FALSE, result |-> NoResult, content |-> <<>>,
                thrown |-> EmptyStr, error |-> EmptyStr] >>
    /\ calls' = <<TranslateCall(1, 0)>>
    /\ last' = [op |-> "request", req |-> 1]
    /\ UNCHANGED conversionCache
    /\ UNCHANGED jsapiVars
    /\ UNCHANGED steps

\* Lines 36-40: translate resolves and performTranslation returns the
\* result.
TranslateResolves ==
    /\ \E r \in DOMAIN requests, translatedText \in Translations :
         /\ requests[r].pc = "translating"
         /\ requests' =
               [requests EXCEPT ![r] =
                   [requests[r] EXCEPT
                       !.pc = "returned", !.resolved = TRUE,
                       !.result = [NoResult EXCEPT
                                      !.translatedText = translatedText]]]
         /\ last' = [op |-> "resolved", req |-> r]
    /\ UNCHANGED <<conversionCache, calls>>
    /\ UNCHANGED jsapiVars
    /\ UNCHANGED steps

\* Lines 68-86, 121-156: with the result semanticTranslateWithLengthCheck
\* makes the length check and the handler returns the content.
HandlerReturns ==
    /\ \E r \in DOMAIN requests :
         /\ requests[r].pc = "returned"
         /\ LET q == requests[r]
                result == LengthCheck(q.params.text, q.result.translatedText,
                                      q.params.max_length_variance)
            IN requests' =
                  [requests EXCEPT ![r] =
                      [q EXCEPT !.pc = "done", !.result = result,
                                !.content = TranslationContent(result)]]
         /\ last' = [op |-> "returned", req |-> r]
    /\ UNCHANGED <<conversionCache, calls>>
    /\ UNCHANGED jsapiVars
    /\ UNCHANGED steps

\* The end of one turn of the loop (attempt++ and the loop test): the next
\* call of translate, or the throw after the loop and the handler's catch.
LoopNext(r, q) ==
    IF q.attempt + 1 < maxRetries
    THEN /\ requests' =
               [requests EXCEPT ![r] =
                   [q EXCEPT !.attempt = q.attempt + 1,
                             !.pc = "translating"]]
         /\ calls' = Append(calls, TranslateCall(r, q.attempt + 1))
    ELSE /\ requests' =
               [requests EXCEPT ![r] =
                   [q EXCEPT !.attempt = q.attempt + 1,
                             !.pc = "failed",
                             !.thrown = RetriesExhausted(q.lastError),
                             !.error = HandlerError(
                                          RetriesExhausted(q.lastError))]]
         /\ UNCHANGED calls

\* Lines 41-47: translate rejects; the error is kept and, when an attempt
\* is left, the timer is set.
TranslateRejects ==
    /\ \E r \in DOMAIN requests, err \in TranslateErrors :
         /\ requests[r].pc = "translating"
         /\ LET q == [requests[r] EXCEPT !.lastError = err]
            IN IF ShouldWait(q.attempt)
               THEN /\ requests' =
                          [requests EXCEPT ![r] = [q EXCEPT !.pc = "waiting"]]
                    /\ calls' = Append(calls, TimeoutCall(r, q.attempt))
               ELSE LoopNext(r, q)
         /\ last' = [op |-> "rejected", req |-> r]
    /\ UNCHANGED conversionCache
    /\ UNCHANGED jsapiVars
    /\ UNCHANGED steps

\* Line 45: the timer fires and the loop goes on.
TimerFires ==
    /\ \E r \in DOMAIN requests :
         /\ requests[r].pc = "waiting"
         /\ LoopNext(r, requests[r])
         /\ last' = [op |-> "timer", req |-> r]
    /\ UNCHANGED conversionCache
    /\ UNCHANGED jsapiVars
    /\ UNCHANGED steps

NextTranslate ==
    \/ TranslateRequest
    \/ TranslateResolves
    \/ HandlerReturns
    \/ TranslateRejects
    \/ TimerFires

\* One invocation of semantic-translate.
SpecTranslate == InitTranslate /\ [][NextTranslate]_vars

\* The same with the invocation made, every call of translate settled and
\* every timer fired in the end.
SpecTranslateFair ==
    /\ InitTranslate
    /\ [][NextTranslate]_vars
    /\ WF_vars(TranslateRequest)
    /\ WF_vars(TranslateResolves \/ TranslateRejects)
    /\ WF_vars(TimerFires)

\* -------------------------------------------------------- translate: claims
HasWarning(q) == \E i \in DOMAIN q.content : q.content[i].kind = "warning"

\* C25: a translation that succeeds is returned whatever its variance;
\* withinVariance is |translatedLength - originalLength| * 100 <=
\* max_length_variance * originalLength, and the warning item is there if
\* and only if withinVariance is false.
C25_VarianceIsInformational ==
    \A r \in DOMAIN requests :
        LET q == requests[r]
        IN /\ q.resolved => q.pc \in {"returned", "done"}
           /\ q.pc = "done" =>
                 /\ q.content[1].text = q.result.translatedText
                 /\ q.result.withinVariance
                      = (Abs(q.result.translatedLength
                               - q.result.originalLength) * 100
                           <= q.params.max_length_variance
                                * q.result.originalLength)
                 /\ HasWarning(q) = ~q.result.withinVariance

\* The log of the calls of an invocation whose attempts all failed.
FullLog(r) ==
    << TranslateCall(r, 0), TimeoutCall(r, 0), TranslateCall(r, 1),
       TimeoutCall(r, 1), TranslateCall(r, 2) >>

C26_Safety ==
    \A r \in DOMAIN requests :
        LET q == requests[r]
        IN /\ Len(calls) <= Len(FullLog(r))
           /\ calls = SubSeq(FullLog(r), 1, Len(calls))
           /\ Len(calls) < 2 \/ calls[2].delay = 100
           /\ Len(calls) < 4 \/ calls[4].delay = 200
           /\ q.pc \in {"translating", "returned", "done"}
                => calls[Len(calls)] = TranslateCall(r, q.attempt)
           /\ q.pc = "waiting"
                => calls[Len(calls)] = TimeoutCall(r, q.attempt)
           /\ q.pc = "failed"
                => /\ calls = FullLog(r)
                   /\ ~q.resolved
                   /\ q.thrown
                        = <<"Translation failed after ", "3", " attempts: ">>
                          \o (IF q.lastError.hasMessage
                              THEN q.lastError.message
                              ELSE <<"Unknown error">>)

\* C26: performTranslation ends after at most 3 calls of translate: the
\* first call that succeeds ends it with that result, it waits 100 ms and
\* 200 ms between a failed attempt and the next and not after the last,
\* and after three failures it throws 'Translation failed after 3
\* attempts' with the message of the last failure.
C26_PerformTranslationEnds ==
    /\ []C26_Safety
    /\ <>(requests # <<>>
            /\ requests[1].pc \in {"returned", "done", "failed"})

\* Three calls failed, the last one with a message, with the two waits
\* between them.
C26_Witness ==
    /\ requests # <<>>
    /\ requests[1].pc = "failed"
    /\ requests[1].lastError.hasMessage
    /\ Len(calls) = 5

\* ------------------------------------- tree mutation: what a splice leaves
\* The children the last spliceContent removed (Nodes only).
RemovedChildren ==
    LET old == OldChildren
        from == Min(last.index, Len(old))
        to == Min(last.index + last.count, Len(old))
    IN {old[k] : k \in (from + 1)..to} \ {NULL}

\* C28: spliceContent changes only the receiver's children and the
\* parentNode of the Nodes it inserts: the children it removes keep their
\* parentNode, the receiver, and the name, attrs and type of every node
\* and the children of every other node are as before.
C28_SpliceTouchesNothingElse ==
    LastSplice =>
        /\ DOMAIN nodes = DOMAIN last.pre
        /\ \A n \in DOMAIN nodes :
              /\ nodes[n].name = last.pre[n].name
              /\ nodes[n].attrs = last.pre[n].attrs
              /\ nodes[n].type = last.pre[n].type
              /\ n # last.this => nodes[n].children = last.pre[n].children
              /\ n \notin Range(GivenNodes)
                   => nodes[n].parentNode = last.pre[n].parentNode
        /\ \A n \in RemovedChildren : nodes[n].parentNode = last.this

\* A child was removed and not given back, and a Node that had another
\* parent (or none) was inserted.
C28_Witness ==
    /\ LastSplice
    /\ \E n \in RemovedChildren :
          /\ n \notin Range(nodes[last.this].children)
          /\ nodes[n].parentNode = last.this
    /\ \E n \in Range(GivenNodes) :
          /\ last.pre[n].parentNode # last.this
          /\ nodes[n].parentNode = last.this
          /\ n \in Range(nodes[last.this].children)

\* ================================================ deviceTool: inject-input
\* An optional string parameter is [given, v]; '' and undefined are falsy.
Absent == [given |-> FALSE, v |-> EmptyStr]
Given(v) == [given |-> TRUE, v |-> v]
Truthy(s) == s.given /\ s.v # EmptyStr

\* One adb invocation in the log of calls; every argument is a string.
Adb(args) == [op |-> "adb", args |-> args]

InputDumpPath == <<"/data/local/tmp/mcp_input_dump.xml">>

\* getCenterFromBounds: the bounds are <<x1, y1, x2, y2>>; Math.round of
\* a half rounds up.
getCenterFromBounds(bounds) ==
    [x |-> (bounds[1] + bounds[3] + 1) \div 2,
     y |-> (bounds[2] + bounds[4] + 1) \div 2]

\* A node of the dump: its resource-id, its text, and its bounds when the
\* bounds attribute is well formed.
UiNode(resourceId, text, hasBounds, bounds) ==
    [resourceId |-> resourceId, text |-> text, hasBounds |-> hasBounds,
     bounds |-> bounds]

\* Lines 186-201: the bounds of the first node that matches the id or the
\* text and has bounds.
RECURSIVE FindTargetBounds(_, _, _)
FindTargetBounds(uiNodes, elementId, elementText) ==
    IF uiNodes = <<>> THEN [found |-> FALSE, bounds |-> <<>>]
    ELSE LET nodeStr == Head(uiNodes)
             matches ==
                 \/ Truthy(elementId) /\ nodeStr.resourceId = elementId.v
                 \/ Truthy(elementText) /\ nodeStr.text = elementText.v
         IN IF matches /\ nodeStr.hasBounds
            THEN [found |-> TRUE, bounds |-> nodeStr.bounds]
            ELSE FindTargetBounds(Tail(uiNodes), elementId, elementText)

\* String(args[0]).replace(/\s/g, '%s')
Whitespace == {" ", "\t", "\n"}
ReplaceSpaces(str) ==
    [i \in DOMAIN str |-> IF str[i] \in Whitespace THEN "%s" ELSE str[i]]

Throws(message) == [ok |-> FALSE, adbArgs |-> <<>>, error |-> message]
Runs(adbArgs) ==
    [ok |-> TRUE, adbArgs |-> <<<<"shell">>, <<"input">>>> \o adbArgs,
     error |-> ""]

\* An argument check that lets a tap with more than two arguments and a
\* swipe with fewer than four pass.
BuildInputLenient(command, args) ==
    IF command = "tap"
    THEN IF Len(args) < 2 THEN Throws("tap requires x and y coordinates")
         ELSE Runs(<<<<"tap">>, args[1], args[2]>>)
    ELSE IF command = "text"
    THEN IF Len(args) # 1
         THEN Throws("text requires a single string argument")
         ELSE Runs(<<<<"text">>, ReplaceSpaces(args[1])>>)
    ELSE IF command = "swipe"
    THEN Runs(<<<<"swipe">>>> \o args)
    ELSE IF command = "back" THEN Runs(<<<<"keyevent">>, <<"4">>>>)
    ELSE IF command = "home" THEN Runs(<<<<"keyevent">>, <<"3">>>>)
    ELSE IF command = "keyevent"
    THEN IF Len(args) < 1 THEN Throws("keyevent requires keycode")
         ELSE Runs(<<<<"keyevent">>>> \o args)
    ELSE Throws("Unknown command")

\* Lines 217-246: the switch over the command: the adb arguments, or the
\* error thrown.
BuildInput(command, args) ==
    IF command = "tap"
    THEN IF Len(args) # 2 THEN Throws("tap requires x and y coordinates")
         ELSE Runs(<<<<"tap">>, args[1], args[2]>>)
    ELSE IF command = "text"
    THEN IF Len(args) # 1
         THEN Throws("text requires a single string argument")
         ELSE Runs(<<<<"text">>, ReplaceSpaces(args[1])>>)
    ELSE IF command = "swipe"
    THEN IF Len(args) < 4
         THEN Throws("swipe requires at least x1, y1, x2, y2")
         ELSE Runs(<<<<"swipe">>>> \o args)
    ELSE IF command = "back" THEN Runs(<<<<"keyevent">>, <<"4">>>>)
    ELSE IF command = "home" THEN Runs(<<<<"keyevent">>, <<"3">>>>)
    ELSE IF command = "keyevent"
    THEN IF Len(args) < 1 THEN Throws("keyevent requires keycode")
         ELSE Runs(<<<<"keyevent">>>> \o args)
    ELSE Throws("Unknown command")

\* The inputs: the commands of the schema, argument lists of every
\* length from none to five, ids and texts given, empty and absent.
Commands == {"tap", "text", "swipe", "keyevent", "back", "home"}

ArgLists ==
    { [given |-> FALSE, v |-> <<>>],
      [given |-> TRUE, v |-> <<>>],
      [given |-> TRUE, v |-> << <<"a", " ", "b">> >>],
      [given |-> TRUE, v |-> << <<"10">>, <<"20">> >>],
      [given |-> TRUE, v |-> << <<"10">>, <<"20">>, <<"30">> >>],
      [given |-> TRUE, v |-> << <<"10">>, <<"20">>, <<"30">>, <<"40">> >>],
      [given |-> TRUE,
       v |-> << <<"10">>, <<"20">>, <<"30">>, <<"40">>, <<"500">> >>] }

ElementIds == {Absent, Given(EmptyStr), Given(<<"id/ok">>), Given(<<"id/none">>)}
ElementTexts == {Absent, Given(<<"Login">>)}

\* What 'adb shell cat' of the dump may print.
UiDumps ==
    { <<>>,
      << UiNode(<<"id/frame">>, EmptyStr, TRUE, <<0, 0, 100, 200>>),
         UiNode(<<"id/ok">>, <<"OK">>, TRUE, <<10, 20, 31, 40>>),
         UiNode(<<"id/label">>, <<"Login">>, FALSE, <<>>) >> }

\* The rest of the handler once the arguments are settled (lines 216-248):
\* the switch throws, or 'adb shell input' is started.
StartInput(q) ==
    LET built == BuildInput(q.params.command, q.args)
    IN IF built.ok
       THEN /\ requests' = <<[q EXCEPT !.pc = "injecting"]>>
            /\ calls' = Append(calls, Adb(built.adbArgs))
       ELSE /\ requests' = <<[q EXCEPT !.pc = "failed",
                                       !.error = built.error]>>
            /\ UNCHANGED calls

InitInject ==
    /\ JsapiIdle
    /\ ToolsIdle
    /\ last = NoOp

\* Lines 162-175, 216-248: the handler is invoked and runs to its first
\* await.
InjectRequest ==
    /\ requests = <<>>
    /\ \E command \in Commands, args \in ArgLists,
          elementId \in ElementIds, elementText \in ElementTexts :
         LET q == [params |-> [command |-> command, args |-> args,
                               elementId |-> elementId,
                               elementText |-> elementText],
                   pc |-> "start", args |-> args.v, content |-> <<>>,
                   error |-> ""]
         IN IF Truthy(elementId) \/ Truthy(elementText)
            THEN IF command # "tap"
                 THEN /\ requests' =
                            <<[q EXCEPT !.pc = "failed",
                                        !.error = "elementId/elementText can only be used with command=tap"]>>
                      /\ calls' = calls
                 ELSE /\ requests' = <<[q EXCEPT !.pc = "dumping"]>>
                      /\ calls' =
                            Append(calls,
                                   Adb(<<<<"shell">>, <<"uiautomator">>,
                                         <<"dump">>, InputDumpPath>>))
            ELSE StartInput(q)
    /\ last' = [op |-> "request", req |-> 1]
    /\ UNCHANGED conversionCache
    /\ UNCHANGED jsapiVars
    /\ UNCHANGED steps

\* Lines 175-176: the dump settles; after a dump that worked its file is
\* read.
DumpSettles ==
    /\ requests # <<>>
    /\ requests[1].pc = "dumping"
    /\ \E worked \in BOOLEAN :
         IF worked
         THEN /\ requests' = <<[requests[1] EXCEPT !.pc = "reading"]>>
              /\ calls' = Append(calls, Adb(<<<<"shell">>, <<"cat">>,
                                              InputDumpPath>>))
         ELSE /\ requests' = <<[requests[1] EXCEPT
                                    !.pc = "failed",
                                    !.error = "adb shell uiautomator dump failed"]>>
              /\ UNCHANGED calls
    /\ last' = [op |-> "dumped", req |-> 1]
    /\ UNCHANGED conversionCache
    /\ UNCHANGED jsapiVars
    /\ UNCHANGED steps

\* Lines 176-248: the dump is read; the element is looked up, its centre
\* becomes the arguments, and the switch follows.
CatSettles ==
    /\ requests # <<>>
    /\ requests[1].pc = "reading"
    /\ \/ /\ requests' = <<[requests[1] EXCEPT
                                !.pc = "failed",
                                !.error = "adb shell cat failed"]>>
          /\ UNCHANGED calls
       \/ \E xmlContent \in UiDumps :
            LET q == requests[1]
                target == FindTargetBounds(xmlContent, q.params.elementId,
                                           q.params.elementText)
                center == getCenterFromBounds(target.bounds)
            IN IF ~target.found
               THEN /\ requests' = <<[q EXCEPT
                                         !.pc = "failed",
                                         !.error = "Could not find element"]>>
                    /\ UNCHANGED calls
               ELSE StartInput([q EXCEPT !.args = << <<ToString(center.x)>>,
                                                     <<ToString(center.y)>> >>])
    /\ last' = [op |-> "read", req |-> 1]
    /\ UNCHANGED conversionCache
    /\ UNCHANGED jsapiVars
    /\ UNCHANGED steps

\* Lines 248-249: 'adb shell input' settles.
InputSettles ==
    /\ requests # <<>>
    /\ requests[1].pc = "injecting"
    /\ \E worked \in BOOLEAN :
         requests' =
            <<IF worked
              THEN [requests[1] EXCEPT
                       !.pc = "done",
                       !.content = <<[command |-> requests[1].params.command,
                                      args |-> requests[1].args]>>]
              ELSE [requests[1] EXCEPT !.pc = "failed",
                                       !.error = "adb shell input failed"]>>
    /\ last' = [op |-> "injected", req |-> 1]
    /\ UNCHANGED <<conversionCache, calls>>
    /\ UNCHANGED jsapiVars
    /\ UNCHANGED steps

NextInject == InjectRequest \/ DumpSettles \/ CatSettles \/ InputSettles

\* One invocation of inject-input.
SpecInject == InitInject /\ [][NextInject]_vars

\* ----------------------------------------------------- inject-input: claims
IsInput(c) ==
    /\ Len(c.args) >= 2
    /\ c.args[1] = <<"shell">>
    /\ c.args[2] = <<"input">>

InputCalls == {j \in DOMAIN calls : IsInput(calls[j])}

\* The argument count the switch rejects.
InvalidCount(command, n) ==
    \/ command = "tap" /\ n # 2
    \/ command = "text" /\ n # 1
    \/ command = "swipe" /\ n < 4
    \/ command = "keyevent" /\ n < 1

WithElement(q) == Truthy(q.params.elementId) \/ Truthy(q.params.elementText)

\* What holds of inject-input apart from the argument count: with an
\* element and a command other than tap it fails before any adb command;
\* back and home send keyevent 4 and 3 whatever the args; on success
\* exactly one 'adb shell input' command was run, as the last adb command.
InjectOrder(q) ==
    /\ (WithElement(q) /\ q.params.command # "tap")
        => q.pc = "failed" /\ calls = <<>>
    /\ \A j \in InputCalls :
          /\ q.params.command = "back"
               => calls[j].args = <<<<"shell">>, <<"input">>, <<"keyevent">>,
                                    <<"4">>>>
          /\ q.params.command = "home"
               => calls[j].args = <<<<"shell">>, <<"input">>, <<"keyevent">>,
                                    <<"3">>>>
    /\ (q.params.command \in {"back", "home"} /\ ~WithElement(q))
        => InputCalls # {}
    /\ Cardinality(InputCalls) <= 1
    /\ q.pc = "done" => InputCalls = {Len(calls)}
    /\ q.pc = "injecting" => InputCalls = {Len(calls)}

\* C29 as stated: inject-input validates before it acts, and whenever the
\* count of the args given is invalid for the command (tap != 2, text != 1,
\* swipe < 4, keyevent < 1) it fails without any 'adb shell input'.
C29_ValidatesGivenArgs ==
    \A r \in DOMAIN requests :
        LET q == requests[r]
        IN /\ InjectOrder(q)
           /\ InvalidCount(q.params.command, Len(q.params.args.v))
               => /\ InputCalls = {}
                  /\ q.pc \in {"dumping", "reading", "failed"}

\* C29, with the count taken of the arguments the command is run with:
\* the args given, or the two coordinates of the element's centre when an
\* element is given.  When that count is invalid the call has failed in
\* the switch and no 'adb shell input' was run.
C29_ValidatesBeforeActing ==
    \A r \in DOMAIN requests :
        LET q == requests[r]
        IN /\ InjectOrder(q)
           /\ (~WithElement(q)
                /\ InvalidCount(q.params.command, Len(q.params.args.v)))
               => q.pc = "failed" /\ calls = <<>>
           /\ InvalidCount(q.params.command, Len(q.args))
               => InputCalls = {} /\ q.pc \notin {"injecting", "done"}
           /\ \A j \in InputCalls :
                 ~InvalidCount(q.params.command, Len(q.args))

\* A tap on an element, given without args, was run at the centre of the
\* element after the dump and its reading.
C29_Witness ==
    /\ requests # <<>>
    /\ requests[1].pc = "done"
    /\ requests[1].params.command = "tap"
    /\ requests[1].params.args.v = <<>>
    /\ Len(calls) = 3
    /\ calls[3].args = <<<<"shell">>, <<"input">>, <<"tap">>, <<"21">>,
                         <<"30">>>>

\* ============================================== deviceTool: take-screenshot
DEVICE_SCREENSHOT_PREFIX == "/sdcard/mcp_screenshot_"

\* generateDeviceScreenshotPath(): randomUUID() gives every invocation an
\* id of its own.
generateDeviceScreenshotPath(uuid) ==
    <<DEVICE_SCREENSHOT_PREFIX, uuid, ".png">>

\* str.endsWith('.png') and str.includes('..') for a path of atoms
EndsWithPng(p) == p # <<>> /\ p[Len(p)] = ".png"

DotFirst == {".", "..", ".png", ".xml"}

IncludesDotDot(p) ==
    \E i \in DOMAIN p :
        \/ p[i] = ".."
        \/ i < Len(p) /\ p[i] = "." /\ p[i + 1] \in DotFirst

\* The output paths asked for.
OutputPaths ==
    { <<"shot", ".png">>,
      <<"out", "/", "shot", ".png">>,
      <<"/", "abs", "/", "shot", ".png">>,
      <<"shot", ".txt">>,
      <<"..", "/", "shot", ".png">>,
      <<"shot", ".png", "/">> }

\* A step of an invocation in the log of calls: an adb command or mkdir.
DeviceCall(r, op, args) == [op |-> op, req |-> r, args |-> args]

InitScreenshot ==
    /\ JsapiIdle
    /\ ToolsIdle
    /\ last = NoOp

\* Lines 284-298: the handler is invoked: the path is validated, the device
\* path is made and screencap is started.
ScreenshotRequest ==
    /\ Len(requests) < MaxRequests
    /\ \E outputPath \in OutputPaths :
         LET r == Len(requests) + 1
             resolvedPath == pathResolve(outputPath)
             q == [params |-> [outputPath |-> outputPath],
                   resolvedPath |-> resolvedPath, devicePath |-> <<>>,
                   pc |-> "start", failedAt |-> "", content |-> <<>>]
             devicePath == generateDeviceScreenshotPath(ToString(r))
         IN IF ~EndsWithPng(resolvedPath) \/ IncludesDotDot(outputPath)
            THEN /\ requests' =
                       Append(requests, [q EXCEPT !.pc = "failed",
                                                  !.failedAt = "validation"])
                 /\ UNCHANGED calls
            ELSE /\ requests' =
                       Append(requests, [q EXCEPT !.pc = "capturing",
                                                  !.devicePath = devicePath])
                 /\ calls' =
                       Append(calls,
                              DeviceCall(r, "screencap",
                                         <<<<"shell">>, <<"screencap">>,
                                           <<"-p">>, devicePath>>))
    /\ last' = [op |-> "request", req |-> Len(requests) + 1]
    /\ UNCHANGED conversionCache
    /\ UNCHANGED jsapiVars
    /\ UNCHANGED steps

\* An await of the handler settles: when it worked the next step is
\* started, otherwise the handler throws.
Settles(r, pc, worked, next, call) ==
    /\ requests[r].pc = pc
    /\ IF worked
       THEN /\ requests' = [requests EXCEPT ![r].pc = next]
            /\ calls' = Append(calls, call)
       ELSE /\ requests' = [requests EXCEPT ![r].pc = "failed",
                                            ![r].failedAt = pc]
            /\ UNCHANGED calls

\* Lines 298-302: screencap settles; then mkdir of the directory.
ScreencapSettles ==
    /\ \E r \in DOMAIN requests, worked \in BOOLEAN :
         /\ Settles(r, "capturing", worked, "mkdir",
                    DeviceCall(r, "mkdir",
                               <<pathDirname(requests[r].resolvedPath)>>))
         /\ last' = [op |-> "screencap", req |-> r]
    /\ UNCHANGED conversionCache
    /\ UNCHANGED jsapiVars
    /\ UNCHANGED steps

\* Lines 302-305: mkdir settles; then the pull to params.outputPath.
MkdirSettles ==
    /\ \E r \in DOMAIN requests, worked \in BOOLEAN :
         /\ Settles(r, "mkdir", worked, "pulling",
                    DeviceCall(r, "pull",
                               <<<<"pull">>, requests[r].devicePath,
                                 requests[r].params.outputPath>>))
         /\ last' = [op |-> "mkdir", req |-> r]
    /\ UNCHANGED conversionCache
    /\ UNCHANGED jsapiVars
    /\ UNCHANGED steps

\* Lines 305-309: pull settles; then rm of the device file.
PullSettles ==
    /\ \E r \in DOMAIN requests, worked \in BOOLEAN :
         /\ Settles(r, "pulling", worked, "cleaning",
                    DeviceCall(r, "rm",
                               <<<<"shell">>, <<"rm">>,
                                 requests[r].devicePath>>))
         /\ last' = [op |-> "pull", req |-> r]
    /\ UNCHANGED conversionCache
    /\ UNCHANGED jsapiVars
    /\ UNCHANGED steps

\* Lines 308-314: rm settles, its failure is ignored; the handler returns.
RmSettles ==
    /\ \E r \in DOMAIN requests, worked \in BOOLEAN :
         /\ requests[r].pc = "cleaning"
         /\ requests' =
               [requests EXCEPT
                   ![r].pc = "done",
                   ![r].failedAt = IF worked THEN "" ELSE "rm",
                   ![r].content = << <<"Screenshot saved to: ">>
                                     \o requests[r].resolvedPath >>]
         /\ last' = [op |-> "rm", req |-> r]
    /\ UNCHANGED <<conversionCache, calls>>
    /\ UNCHANGED jsapiVars
    /\ UNCHANGED steps

NextScreenshot ==
    \/ ScreenshotRequest
    \/ ScreencapSettles
    \/ MkdirSettles
    \/ PullSettles
    \/ RmSettles

\* Invocations of take-screenshot, interleaved at their awaits.
SpecScreenshot == InitScreenshot /\ [][NextScreenshot]_vars

\* --------------------------------------------------- take-screenshot: claims
\* The steps of invocation r, in the order they were started.
StepsOf(r) ==
    LET mine == SelectSeq(calls, LAMBDA c : c.req = r)
    IN [i \in DOMAIN mine |-> mine[i].op]

FixedOrder == <<"screencap", "mkdir", "pull", "rm">>

\* C30: take-screenshot runs path validation, screencap to a fresh device
\* path, mkdir, pull and rm in that order; an outputPath that does not end
\* in .png or contains '..' fails before any adb command; rm is issued only
\* after a pull that worked and its failure does not fail the tool; when
\* screencap or pull fails the tool fails and no rm is issued.
C30_ScreenshotSteps ==
    \A r \in DOMAIN requests :
        LET q == requests[r]
            mine == StepsOf(r)
        IN /\ mine = SubSeq(FixedOrder, 1, Len(mine))
           /\ (~EndsWithPng(q.params.outputPath)
                \/ IncludesDotDot(q.params.outputPath))
               => q.pc = "failed" /\ mine = <<>>
           /\ \A r2 \in DOMAIN requests :
                 (r2 # r /\ q.devicePath # <<>>)
                 => requests[r2].devicePath # q.devicePath
           /\ Len(mine) = 4 <=> q.pc \in {"cleaning", "done"}
           /\ q.failedAt = "rm" => q.pc = "done"
           /\ q.failedAt \in {"capturing", "mkdir", "pulling"}
               => q.pc = "failed" /\ Len(mine) < 4

====
